---------------------------- MODULE Spec2Model ----------------------------
(***************************************************************************)
(* Host-side I2C protocol layer of PitchMaster25: motor_control.py         *)
(* (DummyBus emulator, start/stop/emergency stop, HLFB capture) and        *)
(* encoder_control.py (single shot, arm, chunked download).                *)
(*                                                                         *)
(* A frame is a sequence of bytes; Python index k is index k+1 here.       *)
(* Every bus write and every bus read is one step of the model.            *)
(***************************************************************************)
EXTENDS Integers, Sequences, FiniteSets, TLC

(***************************************************************************)
(* Bounds of the model                                                     *)
(***************************************************************************)
MaxSamples == 3     \* largest sample count requested / advertised
MaxPolls == 2       \* most non-terminal status answers in one poll loop
MaxOtherCalls == 1  \* most calls of the second thread during one call of the first
MaxBusOps == 4      \* most direct calls of the DummyBus methods in one run
MaxCalls == 3       \* most finished calls remembered in an encoder session

(***************************************************************************)
(* Protocol constants                                                      *)
(***************************************************************************)
I2C_PICO_ADDR == 80
PICO2_ADDR == 96
I2C_BUFFER_SIZE == 6

CMD_START_SEQUENCE == 1
CMD_STOP_SEQUENCE == 2
CMD_RECORD_HLFB == 3
CMD_READ_HLFB_CHUNK == 4
CMD_EMERGENCY_STOP == 5

STATUS_MOTOR_RUNNING == 17
STATUS_MOTOR_STOPPED == 18
STATUS_HLFB_RECORDED == 19
STATUS_HLFB_CAPTURING == 20
STATUS_HLFB_DATA_CHUNK == 21
STATUS_ERROR == 255

CMD_RECORD == 33
CMD_READ_CHUNK == 34
CMD_SINGLE_SHOT == 35

STATUS_ENCODER_IDLE == 49
STATUS_CAPTURING == 50
STATUS_READY == 51
STATUS_CHUNK == 52
STATUS_SINGLE_SHOT_READY == 53

EncoderTableLen == 200      \* len(self._encoder_samples)
DummySpeed == 1234          \* speed reported after START by the emulator
DummySingleShot == 123456   \* value reported after SINGLE_SHOT by the emulator

Addrs == {I2C_PICO_ADDR, PICO2_ADDR}

(***************************************************************************)
(* Bytes and struct packing                                                *)
(***************************************************************************)
Min(a, b) == IF a < b THEN a ELSE b

RECURSIVE Pow2(_)
Pow2(n) == IF n = 0 THEN 1 ELSE 2 * Pow2(n - 1)

\* bytearray(n): n zero bytes
bytearray(n) == [i \in 1..n |-> 0]

\* seq[:length]
Take(s, length) == SubSeq(s, 1, Min(length, Len(s)))

\* seq[from:to] with Python's clipping (0-based, to exclusive)
Slice(s, from, to) == SubSeq(s, Min(from, Len(s)) + 1, Min(to, Len(s)))

\* chunk.ljust(4, b'\x00')
Ljust4(s) == s \o bytearray(4 - Len(s))

\* struct.pack('<i', v), v a signed 32-bit value
PackI32(v) ==
    << v % 256, (v \div 256) % 256, (v \div 65536) % 256, (v \div 16777216) % 256 >>

\* struct.unpack('i', b): signed 32-bit little-endian
UnpackI32(b) ==
    b[1] + b[2] * 256 + b[3] * 65536
         + (IF b[4] >= 128 THEN b[4] - 256 ELSE b[4]) * 16777216

\* struct.pack('<I', v), 0 <= v < 2^31
PackU32(v) == PackI32(v)

\* the four bytes read as a signed value
UnpackU32_Signed(b) ==
    << (IF b[4] >= 128 THEN b[4] - 256 ELSE b[4]) * 256 + b[3], b[2] * 256 + b[1] >>

\* struct.unpack('I', b): unsigned 32-bit little-endian.  The value v can
\* reach 2^32 - 1, so it is kept as its two 16-bit halves
\* << v \div 65536, v % 65536 >>
UnpackU32(b) == << b[4] * 256 + b[3], b[2] * 256 + b[1] >>

\* the 16-bit value packed low byte first
PackU16BE_LittleEndian(v) == << v % 256, (v \div 256) % 256 >>

\* struct.pack('>H', v)
PackU16BE(v) == << (v \div 256) % 256, v % 256 >>

(***************************************************************************)
(* A float is the dyadic rational (-1)^s * m * 2^e, kept normalised as     *)
(* <<s, m, e>> with m odd, or <<0, 0, 0>> for zero.                        *)
(***************************************************************************)
RECURSIVE Normalise(_, _, _)
Normalise(s, m, e) ==
    IF m = 0 THEN << 0, 0, 0 >>
    ELSE IF m % 2 = 0 THEN Normalise(s, m \div 2, e + 1)
    ELSE << s, m, e >>

\* position of the highest set bit of m > 0
RECURSIVE TopBit(_)
TopBit(m) == IF m < 2 THEN 0 ELSE 1 + TopBit(m \div 2)

\* struct.pack('<f', m * 2^e) for 0 <= m < 2^24 (exactly representable)
PackF32(m, e) ==
    IF m = 0 THEN << 0, 0, 0, 0 >>
    ELSE LET p == TopBit(m)
             ex == p + e + 127
             mant == (m - Pow2(p)) * Pow2(23 - p)
         IN << mant % 256, (mant \div 256) % 256,
               (mant \div 65536) + (ex % 2) * 128, ex \div 2 >>

\* struct.unpack_from('<f', buf, 1): IEEE-754 single, little-endian
UnpackF32(b) ==
    LET s == b[4] \div 128
        ex == (b[4] % 128) * 2 + b[3] \div 128
        mant == (b[3] % 128) * 65536 + b[2] * 256 + b[1]
    IN IF ex = 0 THEN Normalise(s, mant, -149)
       ELSE Normalise(s, 8388608 + mant, ex - 150)

\* float(offset) / 4.0 as the emulator computes it, then packed
PackOffsetQuarter(offset) == PackF32(offset, -2)

(***************************************************************************)
(* DummyBus                                                                *)
(***************************************************************************)
NoWrite == [set |-> FALSE, reg |-> 0, data |-> << >>]

\* self._encoder_samples = [i * 10 for i in range(200)]
encoder_samples(i) == i * 10

\* the whole sample table prepared, whatever the count
RecordBytes_WholeTable(samples) ==
    [j \in 1..(4 * EncoderTableLen) |->
        PackI32(encoder_samples(((j - 1) \div 4) % EncoderTableLen))[((j - 1) % 4) + 1]]

\* bytes prepared by a CMD_RECORD write for `samples` samples
RecordBytes(samples) ==
    [j \in 1..(4 * samples) |->
        PackI32(encoder_samples(((j - 1) \div 4) % EncoderTableLen))[((j - 1) % 4) + 1]]

\* data[1] or 200
SamplesOrDefault(d) == IF d = 0 THEN EncoderTableLen ELSE d

\* one slot for the last write, whatever the address
DummyWriteLast_OneSlot(lw, addr, register, data) ==
    [a \in DOMAIN lw |-> [set |-> TRUE, reg |-> register, data |-> data]]

\* DummyBus.write_i2c_block_data: the new _last_write
DummyWriteLast(lw, addr, register, data) ==
    [lw EXCEPT ![addr] = [set |-> TRUE, reg |-> register, data |-> data]]

\* DummyBus.write_i2c_block_data: the new _memory[0x60]
DummyWriteMemory(mem, addr, register, data) ==
    IF addr = PICO2_ADDR /\ Len(data) >= 2 /\ data[1] = CMD_RECORD
    THEN RecordBytes(SamplesOrDefault(data[2]))
    ELSE mem

\* offset = data[1] | (data[2] << 8)
DummyOffset(data) == data[2] + data[3] * 256

\* DummyBus.read_i2c_block_data at 0x50
DummyReadMotor(last, length) ==
    LET data == last.data
        cmd == data[1]
    IN IF last.set /\ cmd = CMD_RECORD_HLFB
       THEN LET num == IF Len(data) > 1 THEN data[2] ELSE 10
                tb == num * 4
            IN Take(<< STATUS_HLFB_RECORDED, num, tb % 256, (tb \div 256) % 256, 0, 0 >>,
                    length)
       ELSE IF last.set /\ cmd = CMD_READ_HLFB_CHUNK
       THEN LET offset == DummyOffset(data)
            IN Take(<< STATUS_HLFB_DATA_CHUNK >> \o PackOffsetQuarter(offset) \o << 0 >>,
                    length)
       ELSE IF last.set /\ cmd = CMD_EMERGENCY_STOP
       THEN Take(<< STATUS_MOTOR_STOPPED, 0, 0, 0, 0, 0 >>, length)
       ELSE IF last.set /\ cmd = CMD_START_SEQUENCE
       THEN Take(<< STATUS_MOTOR_RUNNING, (DummySpeed \div 256) % 256,
                    DummySpeed % 256, 0, 0, 0 >>, length)
       ELSE Take(<< STATUS_MOTOR_STOPPED, 0, 0, 0, 0, 0 >>, length)

\* DummyBus.read_i2c_block_data at 0x60
DummyReadEncoder(last, mem, length) ==
    LET data == last.data
        cmd == data[1]
    IN IF last.set /\ cmd = CMD_SINGLE_SHOT
       THEN Take(<< STATUS_SINGLE_SHOT_READY >> \o PackU32(DummySingleShot), length)
       ELSE IF last.set /\ cmd = CMD_RECORD
       THEN LET tb == Len(mem)
            IN Take(<< STATUS_READY, tb % 256, (tb \div 256) % 256, 0, 0, 0 >>, length)
       ELSE IF last.set /\ Len(data) >= 3 /\ data[1] = CMD_READ_CHUNK
       THEN LET offset == DummyOffset(data)
                chunk == Slice(mem, offset, offset + 4)
            IN Take(<< STATUS_CHUNK >> \o Ljust4(chunk) \o << 0 >>, length)
       ELSE Take(<< STATUS_ENCODER_IDLE, 0, 0, 0, 0, 0 >>, length)

\* DummyBus.read_i2c_block_data
DummyRead(lw, mem, addr, length) ==
    IF addr = I2C_PICO_ADDR THEN DummyReadMotor(lw[addr], length)
    ELSE IF addr = PICO2_ADDR THEN DummyReadEncoder(lw[addr], mem, length)
    ELSE bytearray(length)


(***************************************************************************)
(* A physical peripheral behind SMBus: any well-formed frame may come      *)
(* back, and any transfer may raise OSError.                               *)
(***************************************************************************)
OSError == << -1 >>

RealTotals == { t \in 0..(4 * MaxSamples) : t % 2 = 0 }
HlfbPayloads == { PackF32(1, 0), PackF32(1, -1) }
EncoderPayloads == { PackI32(10), PackI32(-1) }

SingleShotPayloads == { PackU32(DummySingleShot), << 255, 255, 255, 255 >> }

Lo(x) == x % 256
Hi(x) == (x \div 256) % 256

MotorFrames ==
    { << s, 0, 0, 0, 0, 0 >> :
        s \in { STATUS_MOTOR_RUNNING, STATUS_MOTOR_STOPPED, STATUS_HLFB_CAPTURING,
                STATUS_ERROR, CMD_RECORD_HLFB } }
    \cup { << STATUS_HLFB_RECORDED, t \div 4, Lo(t), Hi(t), 0, 0 >> : t \in RealTotals }
    \cup { << STATUS_HLFB_DATA_CHUNK >> \o v \o << 0 >> : v \in HlfbPayloads }

EncoderFrames ==
    { << s, 0, 0, 0, 0, 0 >> : s \in { STATUS_ENCODER_IDLE, STATUS_CAPTURING } }
    \cup { << STATUS_READY, Lo(t), Hi(t), 0, 0, 0 >> : t \in RealTotals }
    \cup { << STATUS_CHUNK >> \o v \o << 0 >> : v \in EncoderPayloads }
    \cup { << STATUS_SINGLE_SHOT_READY >> \o v \o << 0 >> : v \in SingleShotPayloads }

PeripheralFrames(addr) == IF addr = I2C_PICO_ADDR THEN MotorFrames ELSE EncoderFrames

(***************************************************************************)
(* Values a call returns                                                   *)
(***************************************************************************)
RetNone == [kind |-> "None", val |-> << >>]
RetList(s) == [kind |-> "list", val |-> s]
RetVal(x) == [kind |-> "value", val |-> << x >>]
RetRaise(x) == [kind |-> "raise", val |-> << x >>]

(***************************************************************************)
(* Inputs                                                                  *)
(***************************************************************************)
MaxSpeeds == { -60, 0, 120 }
OperatingSpeeds == { -1, 0, 1, 3 }
RampMultipliers == { -1, 0, 255, 256 }
DirectionStrings == { "cw", "ccw", "up" }
NumSamples == 0..MaxSamples \cup { 8, 256 }

NoArgs == [max_speed |-> 0, operating_speed |-> 0, ramp_multiplier |-> 0,
           direction_string |-> "", num_samples |-> 0]

(***************************************************************************)
(* State                                                                   *)
(***************************************************************************)
VARIABLES
    dev_mode,         \* init_bus(dev_mode): TRUE = DummyBus, FALSE = SMBus
    last_write,       \* DummyBus._last_write
    memory,           \* DummyBus._memory[0x60]
    pc,               \* position of the caller
    op,               \* function being executed
    args,             \* its arguments
    buf,              \* frame built for the next write
    status_buf,       \* last frame read
    total_bytes,
    offset,
    results,          \* capture_and_read_hlfb: decoded floats
    collected_bytes,  \* read_encoder_data: accumulated bytes
    result,           \* value returned
    outcome,          \* path by which the call ended
    trace,            \* bus transfers of the current call, in order
    polls,            \* non-terminal poll iterations of the current call
    errOffset,        \* offset printed by the chunk error message, -1 if none
    armedAtCall,      \* samples of the RECORD frame that is the last encoder write
                      \* when read_encoder_data is called, -1 if there is none
    seen,             \* <<op, outcome, result>> of the finished not-ready / failed calls
    main_state,       \* "library": the functions are called directly;
                      \* otherwise where main()'s command loop stands
    other,            \* a second thread using the same bus object
    gui               \* PitchMasterWindow: what its handlers decide by

vars == << dev_mode, last_write, memory, pc, op, args, buf, status_buf, total_bytes,
           offset, results, collected_bytes, result, outcome, trace, polls,
           errOffset, armedAtCall, seen, main_state, other, gui >>

busVars == << dev_mode, last_write, memory >>
locals == << buf, status_buf, total_bytes, offset, results, collected_bytes, polls,
             errOffset >>
extVars == << main_state, other, gui >>

\* PitchMasterWindow.__init__: no max speed, E-Stop released, the motor
\* controls built disabled; handler is the handler that ran last
GuiInit ==
    [ handler |-> "none", estop_engaged |-> FALSE, max_speed |-> << >>,
      enabled |-> FALSE ]

\* the second thread before it runs anything
OtherIdle ==
    [ pc |-> "idle", op |-> "none", num_samples |-> 0, total_bytes |-> 0, offset |-> 0,
      results |-> << >>, polls |-> 0, calls |-> 0, first |-> << >> ]

InitCore ==
    /\ dev_mode \in BOOLEAN
    /\ last_write = [a \in Addrs |-> NoWrite]
    /\ memory = << >>
    /\ pc = "idle"
    /\ op = "none"
    /\ args = NoArgs
    /\ buf = << >>
    /\ status_buf = << >>
    /\ total_bytes = 0
    /\ offset = 0
    /\ results = << >>
    /\ collected_bytes = << >>
    /\ result = RetNone
    /\ outcome = "none"
    /\ trace = << >>
    /\ polls = 0
    /\ errOffset = -1
    /\ armedAtCall = -1
    /\ seen = {}
    /\ other = OtherIdle
    /\ gui = GuiInit

\* the functions called directly by a single caller
Init ==
    /\ InitCore
    /\ main_state = "library"

(***************************************************************************)
(* Bus primitives as the caller sees them                                  *)
(***************************************************************************)
WriteOutcomes == IF dev_mode THEN { TRUE } ELSE { TRUE, FALSE }

ReadOutcomes(addr, length) ==
    IF dev_mode THEN { DummyRead(last_write, memory, addr, length) }
    ELSE { Take(f, length) : f \in PeripheralFrames(addr) } \cup { OSError }

\* a write of thread `by` on the shared bus object
BusWrite(by, addr, register, data, ok) ==
    /\ trace' = Append(trace, [by |-> by, t |-> "w", addr |-> addr, reg |-> register,
                               len |-> Len(data), data |-> data, ok |-> ok])
    /\ IF dev_mode /\ ok
       THEN /\ last_write' = DummyWriteLast(last_write, addr, register, data)
            /\ memory' = DummyWriteMemory(memory, addr, register, data)
       ELSE UNCHANGED << last_write, memory >>
    /\ UNCHANGED dev_mode

\* a read that uses up the write it answers
BusRead_Consumes(by, addr, length, r) ==
    /\ trace' = Append(trace, [by |-> by, t |-> "r", addr |-> addr, reg |-> 0,
                               len |-> length, data |-> r, ok |-> (r # OSError)])
    /\ last_write' = [last_write EXCEPT ![addr] = NoWrite]
    /\ UNCHANGED << dev_mode, memory >>

\* a read of thread `by` on the shared bus object
BusRead(by, addr, length, r) ==
    /\ trace' = Append(trace, [by |-> by, t |-> "r", addr |-> addr, reg |-> 0,
                               len |-> length, data |-> r, ok |-> (r # OSError)])
    /\ UNCHANGED busVars

\* bus.write_i2c_block_data(addr, register, data); ok = FALSE when it raises
write_i2c_block_data(addr, register, data, ok) ==
    /\ BusWrite("main", addr, register, data, ok)
    /\ UNCHANGED extVars

\* bus.read_i2c_block_data(addr, 0, length) answering r (OSError when it raises)
read_i2c_block_data(addr, length, r) ==
    /\ BusRead("main", addr, length, r)
    /\ UNCHANGED extVars

Return(val, oc) ==
    /\ pc' = "done"
    /\ result' = val
    /\ outcome' = oc

Goto(l) ==
    /\ pc' = l
    /\ UNCHANGED << result, outcome >>

Enter(name, a) ==
    /\ pc = "idle"
    /\ main_state \in { "library", "running", "gui" }
    /\ op' = name
    /\ args' = a
    /\ UNCHANGED << busVars, trace, seen, extVars >>

(***************************************************************************)
(* motor_control.start_motor                                               *)
(***************************************************************************)
\* the upper bound off by one
RampValid_OffByOne(ramp_multiplier) == 0 <= ramp_multiplier /\ ramp_multiplier <= 256

RampValid(ramp_multiplier) == 0 <= ramp_multiplier /\ ramp_multiplier <= 255

\* 0.0 <= (operating_speed * 60) / max_speed <= 1.0, max_speed # 0
DutyValid(max_speed, operating_speed) ==
    IF max_speed > 0
    THEN 0 <= operating_speed * 60 /\ operating_speed * 60 <= max_speed
    ELSE max_speed <= operating_speed * 60 /\ operating_speed * 60 <= 0

Abs(x) == IF x < 0 THEN -x ELSE x

\* Python round(p / q) for p >= 0, q > 0: ties go to the even integer
RoundHalfEven(p, q) ==
    LET f == p \div q
        r == p % q
    IN IF 2 * r < q THEN f
       ELSE IF 2 * r > q THEN f + 1
       ELSE IF f % 2 = 0 THEN f ELSE f + 1

\* round(duty_cycle_float * 65535)
cmd_speed16(max_speed, operating_speed) ==
    RoundHalfEven(Abs(operating_speed * 60) * 65535, Abs(max_speed))

DirectionBit(direction_string) == IF direction_string = "cw" THEN 0 ELSE 1

StartFrame(max_speed, operating_speed, ramp_multiplier, direction_string) ==
    << CMD_START_SEQUENCE >> \o PackU16BE(cmd_speed16(max_speed, operating_speed))
        \o << ramp_multiplier, DirectionBit(direction_string), 0 >>

start_motor_call ==
    \E ms \in MaxSpeeds, os \in OperatingSpeeds, rm \in RampMultipliers,
       ds \in DirectionStrings :
        /\ Enter("start_motor", [NoArgs EXCEPT !.max_speed = ms, !.operating_speed = os,
                                               !.ramp_multiplier = rm,
                                               !.direction_string = ds])
        /\ UNCHANGED << status_buf, total_bytes, offset, results, collected_bytes, polls,
                        errOffset, armedAtCall >>
        /\ IF ~RampValid(rm) THEN Return(RetNone, "range_error") /\ UNCHANGED buf
           ELSE IF ms = 0 THEN Return(RetNone, "exception") /\ UNCHANGED buf
           ELSE IF ~DutyValid(ms, os) THEN Return(RetNone, "range_error") /\ UNCHANGED buf
           ELSE IF ds \notin { "cw", "ccw" }
           THEN Return(RetNone, "range_error") /\ UNCHANGED buf
           ELSE /\ buf' = StartFrame(ms, os, rm, ds)
                /\ Goto("start_motor_write")

start_motor_write ==
    /\ pc = "start_motor_write"
    /\ \E ok \in WriteOutcomes :
        /\ write_i2c_block_data(I2C_PICO_ADDR, 0, buf, ok)
        /\ IF ok THEN Goto("start_motor_read") ELSE Return(RetNone, "transport_error")
    /\ UNCHANGED << op, args, locals, armedAtCall, seen >>

\* the status byte handed back to the caller
StartResult_Status(operating_speed, sb) == RetVal(sb[1])

\* else: return operating_speed
StartResult(operating_speed, sb) == RetVal(operating_speed)

start_motor_read ==
    /\ pc = "start_motor_read"
    /\ \E r \in ReadOutcomes(I2C_PICO_ADDR, I2C_BUFFER_SIZE) :
        /\ read_i2c_block_data(I2C_PICO_ADDR, I2C_BUFFER_SIZE, r)
        /\ IF r = OSError
           THEN Return(RetNone, "transport_error") /\ UNCHANGED status_buf
           ELSE /\ status_buf' = r
                /\ Return(StartResult(args.operating_speed, r), "ok")
    /\ UNCHANGED << op, args, buf, total_bytes, offset, results, collected_bytes, polls,
                    errOffset, armedAtCall, seen >>


(***************************************************************************)
(* motor_control.stop_motor, motor_control.emergency_stop_motor            *)
(***************************************************************************)
StopFrame == << CMD_STOP_SEQUENCE, 0, 0, 0, 0, 0 >>
\* the emergency stop sent with the opcode of the ordinary stop
EmergencyStopFrame_StopOpcode == << CMD_STOP_SEQUENCE, 0, 0, 0, 0, 0 >>

EmergencyStopFrame == << CMD_EMERGENCY_STOP, 0, 0, 0, 0, 0 >>

stop_motor_call ==
    /\ Enter("stop_motor", NoArgs)
    /\ buf' = StopFrame
    /\ Goto("stop_motor_write")
    /\ UNCHANGED << status_buf, total_bytes, offset, results, collected_bytes, polls,
                    errOffset, armedAtCall >>

emergency_stop_motor_call ==
    /\ Enter("emergency_stop_motor", NoArgs)
    /\ buf' = EmergencyStopFrame
    /\ Goto("stop_motor_write")
    /\ UNCHANGED << status_buf, total_bytes, offset, results, collected_bytes, polls,
                    errOffset, armedAtCall >>

\* a failed write is tried again
stop_motor_write_Retry ==
    /\ pc = "stop_motor_write"
    /\ \E ok \in WriteOutcomes :
        /\ write_i2c_block_data(I2C_PICO_ADDR, 0, buf, ok)
        /\ IF ok THEN Goto("stop_motor_read") ELSE Goto("stop_motor_write")
    /\ UNCHANGED << op, args, locals, armedAtCall, seen >>

\* the write of stop_motor and of emergency_stop_motor
stop_motor_write ==
    /\ pc = "stop_motor_write"
    /\ \E ok \in WriteOutcomes :
        /\ write_i2c_block_data(I2C_PICO_ADDR, 0, buf, ok)
        /\ IF ok THEN Goto("stop_motor_read") ELSE Return(RetNone, "transport_error")
    /\ UNCHANGED << op, args, locals, armedAtCall, seen >>

\* the status read of stop_motor and of emergency_stop_motor
stop_motor_read ==
    /\ pc = "stop_motor_read"
    /\ \E r \in ReadOutcomes(I2C_PICO_ADDR, I2C_BUFFER_SIZE) :
        /\ read_i2c_block_data(I2C_PICO_ADDR, I2C_BUFFER_SIZE, r)
        /\ IF r = OSError
           THEN Return(RetNone, "transport_error") /\ UNCHANGED status_buf
           ELSE status_buf' = r /\ Return(RetNone, "ok")
    /\ UNCHANGED << op, args, buf, total_bytes, offset, results, collected_bytes, polls,
                    errOffset, armedAtCall, seen >>

(***************************************************************************)
(* motor_control.capture_and_read_hlfb                                     *)
(***************************************************************************)
\* a count of 0 let through
SamplesValid_FromZero(num_samples) == 0 <= num_samples /\ num_samples <= 255

\* 1 <= num_samples <= 255
SamplesValid(num_samples) == 1 <= num_samples /\ num_samples <= 255

RecordHlfbFrame(num_samples) == << CMD_RECORD_HLFB, num_samples, 0, 0, 0, 0 >>

\* STATUS_ERROR handled like a busy peripheral
PollClass_ErrorWaits(status) ==
    IF status = STATUS_HLFB_CAPTURING \/ status = STATUS_ERROR THEN "capturing"
    ELSE IF status = STATUS_HLFB_RECORDED THEN "recorded"
    ELSE IF status = CMD_RECORD_HLFB THEN "not_ready"
    ELSE "unexpected"

\* the branch the poll loop takes on a status byte
PollClass(status) ==
    IF status = STATUS_HLFB_CAPTURING THEN "capturing"
    ELSE IF status = STATUS_HLFB_RECORDED THEN "recorded"
    ELSE IF status = STATUS_ERROR THEN "error"
    ELSE IF status = CMD_RECORD_HLFB THEN "not_ready"
    ELSE "unexpected"

\* the "not ready" status ends the loop
PollAgain_OnlyCapturing(status) == PollClass(status) = "capturing"

\* the branches that go round the loop again
PollAgain(status) == PollClass(status) \in { "capturing", "not_ready" }

\* the byte count read from bytes 1-2, the encoder's layout
HlfbTotalBytes_EncoderLayout(sb) == sb[2] + sb[3] * 256

\* status_buf[2] | (status_buf[3] << 8)
HlfbTotalBytes(sb) == sb[3] + sb[4] * 256

\* the chunk request for an offset
HlfbChunkRequest(off) == << CMD_READ_HLFB_CHUNK, Lo(off), Hi(off), 0, 0, 0 >>

\* any response taken for a data chunk
HlfbChunkOk_AnyStatus(data_buf) == TRUE

\* data_buf[0] == STATUS_HLFB_DATA_CHUNK
HlfbChunkOk(data_buf) == data_buf[1] = STATUS_HLFB_DATA_CHUNK

\* range(0, total_bytes + 1, 4)
HlfbHasNext_Inclusive(off, total) == off + 4 <= total

\* range(0, total_bytes, 4) has an element after off
HlfbHasNext(off, total) == off + 4 < total

\* the call with num_samples drawn from S
CaptureCall(S) ==
    \E n \in S :
        /\ Enter("capture_and_read_hlfb", [NoArgs EXCEPT !.num_samples = n])
        /\ UNCHANGED << status_buf, total_bytes, offset, results, collected_bytes, polls,
                        errOffset, armedAtCall >>
        /\ IF ~SamplesValid(n) THEN Return(RetNone, "range_error") /\ UNCHANGED buf
           ELSE buf' = RecordHlfbFrame(n) /\ Goto("hlfb_record")

capture_and_read_hlfb_call == CaptureCall(NumSamples)

capture_and_read_hlfb_record ==
    /\ pc = "hlfb_record"
    /\ \E ok \in WriteOutcomes :
        /\ write_i2c_block_data(I2C_PICO_ADDR, 0, buf, ok)
        /\ IF ok THEN Goto("hlfb_poll") ELSE Return(RetNone, "transport_error")
    /\ UNCHANGED << op, args, locals, armedAtCall, seen >>

capture_and_read_hlfb_poll ==
    /\ pc = "hlfb_poll"
    /\ \E r \in ReadOutcomes(I2C_PICO_ADDR, I2C_BUFFER_SIZE) :
        /\ r # OSError /\ PollAgain(r[1]) => polls < MaxPolls
        /\ read_i2c_block_data(I2C_PICO_ADDR, I2C_BUFFER_SIZE, r)
        /\ IF r = OSError
           THEN /\ Return(RetNone, "transport_error")
                /\ UNCHANGED << status_buf, total_bytes, offset, results, polls >>
           ELSE /\ status_buf' = r
                /\ IF PollAgain(r[1])
                   THEN /\ polls' = polls + 1
                        /\ Goto("hlfb_poll")
                        /\ UNCHANGED << total_bytes, offset, results >>
                   ELSE IF PollClass(r[1]) = "recorded"
                   THEN /\ total_bytes' = HlfbTotalBytes(r)
                        /\ UNCHANGED polls
                        /\ IF HlfbTotalBytes(r) = 0
                           THEN /\ Return(RetNone, "zero_bytes")
                                /\ UNCHANGED << offset, results >>
                           ELSE /\ results' = << >>
                                /\ offset' = 0
                                /\ Goto("hlfb_chunk_write")
                   ELSE /\ Return(RetNone,
                                  IF PollClass(r[1]) = "error" THEN "peripheral_error"
                                  ELSE "unexpected_status")
                        /\ UNCHANGED << total_bytes, offset, results, polls >>
    /\ UNCHANGED << op, args, buf, collected_bytes, errOffset, armedAtCall, seen >>

capture_and_read_hlfb_chunk_write ==
    /\ pc = "hlfb_chunk_write"
    /\ buf' = HlfbChunkRequest(offset)
    /\ \E ok \in WriteOutcomes :
        /\ write_i2c_block_data(I2C_PICO_ADDR, 0, HlfbChunkRequest(offset), ok)
        /\ IF ok THEN Goto("hlfb_chunk_read") ELSE Return(RetNone, "transport_error")
    /\ UNCHANGED << op, args, status_buf, total_bytes, offset, results, collected_bytes,
                    polls, errOffset, armedAtCall, seen >>

capture_and_read_hlfb_chunk_read ==
    /\ pc = "hlfb_chunk_read"
    /\ \E r \in ReadOutcomes(I2C_PICO_ADDR, I2C_BUFFER_SIZE) :
        /\ read_i2c_block_data(I2C_PICO_ADDR, I2C_BUFFER_SIZE, r)
        /\ IF r = OSError
           THEN /\ Return(RetNone, "transport_error")
                /\ UNCHANGED << offset, results, errOffset >>
           ELSE IF HlfbChunkOk(r)
           THEN /\ results' = Append(results, UnpackF32(SubSeq(r, 2, 5)))
                /\ UNCHANGED errOffset
                /\ IF HlfbHasNext(offset, total_bytes)
                   THEN offset' = offset + 4 /\ Goto("hlfb_chunk_write")
                   ELSE /\ UNCHANGED offset
                        /\ Return(RetList(Append(results, UnpackF32(SubSeq(r, 2, 5)))),
                                  "ok")
           ELSE /\ errOffset' = offset
                /\ UNCHANGED << offset, results >>
                /\ Return(RetList(results), "chunk_abort")
    /\ UNCHANGED << op, args, buf, status_buf, total_bytes, collected_bytes, polls,
                    armedAtCall, seen >>


(***************************************************************************)
(* encoder_control.read_single_sample                                      *)
(***************************************************************************)
SingleShotFrame == << CMD_SINGLE_SHOT, 0, 0, 0, 0, 0 >>
SingleShotReadLen == 5

read_single_sample_call ==
    /\ Enter("read_single_sample", NoArgs)
    /\ buf' = SingleShotFrame
    /\ Goto("single_write")
    /\ UNCHANGED << status_buf, total_bytes, offset, results, collected_bytes, polls,
                    errOffset, armedAtCall >>

read_single_sample_write ==
    /\ pc = "single_write"
    /\ \E ok \in WriteOutcomes :
        /\ write_i2c_block_data(PICO2_ADDR, 0, buf, ok)
        /\ IF ok THEN Goto("single_read") ELSE Return(RetNone, "transport_error")
    /\ UNCHANGED << op, args, locals, armedAtCall, seen >>

read_single_sample_read ==
    /\ pc = "single_read"
    /\ \E r \in ReadOutcomes(PICO2_ADDR, SingleShotReadLen) :
        /\ read_i2c_block_data(PICO2_ADDR, SingleShotReadLen, r)
        /\ IF r = OSError
           THEN Return(RetNone, "transport_error") /\ UNCHANGED status_buf
           ELSE /\ status_buf' = r
                /\ IF r[1] = STATUS_SINGLE_SHOT_READY
                   THEN Return(RetVal(UnpackU32(SubSeq(r, 2, 5))), "ok")
                   ELSE Return(RetNone, "not_ready")
    /\ UNCHANGED << op, args, buf, total_bytes, offset, results, collected_bytes, polls,
                    errOffset, armedAtCall, seen >>

(***************************************************************************)
(* encoder_control.arm_encoder                                             *)
(***************************************************************************)
ArmSamples == 0..MaxSamples \cup { 256 }

RecordFrame(samples) == << CMD_RECORD, samples, 0, 0, 0, 0 >>

\* buf[1] = samples raises ValueError outside range(256); only OSError is caught
arm_encoder_call ==
    \E n \in ArmSamples :
        /\ Enter("arm_encoder", [NoArgs EXCEPT !.num_samples = n])
        /\ UNCHANGED << status_buf, total_bytes, offset, results, collected_bytes, polls,
                        errOffset, armedAtCall >>
        /\ IF n < 0 \/ n > 255
           THEN Return(RetRaise("ValueError"), "exception") /\ UNCHANGED buf
           ELSE buf' = RecordFrame(n) /\ Goto("arm_write")

arm_encoder_write ==
    /\ pc = "arm_write"
    /\ \E ok \in WriteOutcomes :
        /\ write_i2c_block_data(PICO2_ADDR, 0, buf, ok)
        /\ IF ok THEN Return(RetVal(TRUE), "ok")
           ELSE Return(RetVal(FALSE), "transport_error")
    /\ UNCHANGED << op, args, locals, armedAtCall, seen >>

(***************************************************************************)
(* encoder_control.read_encoder_data                                       *)
(***************************************************************************)
\* status_block[1] | (status_block[2] << 8)
EncoderTotalBytes(sb) == sb[2] + sb[3] * 256

\* every status but CAPTURING taken for READY
EncoderReady_AnyStatus(status_block) == TRUE

\* status == STATUS_READY
EncoderReady(status_block) == status_block[1] = STATUS_READY

\* chunk_status == STATUS_CHUNK
EncoderChunkOk(chunk_block) == chunk_block[1] = STATUS_CHUNK

\* the data argument of the chunk request: [lsb, msb], sent with
\* register = CMD_READ_CHUNK
EncoderChunkData(off) == << Lo(off), Hi(off) >>

\* struct.unpack(f'{count}i', collected_bytes), count = len(collected_bytes) // 4
RECURSIVE UnpackInts(_)
UnpackInts(b) ==
    IF Len(b) < 4 THEN << >>
    ELSE << UnpackI32(SubSeq(b, 1, 4)) >> \o UnpackInts(SubSeq(b, 5, Len(b)))

\* samples of the RECORD frame when it is the last write to the encoder address
ArmedSamples(lw) ==
    IF lw[PICO2_ADDR].set /\ lw[PICO2_ADDR].reg = 0
       /\ Len(lw[PICO2_ADDR].data) = I2C_BUFFER_SIZE
       /\ lw[PICO2_ADDR].data[1] = CMD_RECORD
    THEN lw[PICO2_ADDR].data[2]
    ELSE -1

read_encoder_data_call ==
    /\ Enter("read_encoder_data", NoArgs)
    /\ armedAtCall' = ArmedSamples(last_write)
    /\ Goto("enc_status")
    /\ UNCHANGED locals

read_encoder_data_status ==
    /\ pc = "enc_status"
    /\ \E r \in ReadOutcomes(PICO2_ADDR, 6) :
        /\ read_i2c_block_data(PICO2_ADDR, 6, r)
        /\ IF r = OSError
           THEN /\ Return(RetList(<< >>), "transport_error")
                /\ UNCHANGED << status_buf, total_bytes, offset, collected_bytes >>
           ELSE /\ status_buf' = r
                /\ IF r[1] = STATUS_CAPTURING
                   THEN /\ Return(RetList(<< >>), "not_ready")
                        /\ UNCHANGED << total_bytes, offset, collected_bytes >>
                   ELSE IF EncoderReady(r)
                   THEN /\ total_bytes' = EncoderTotalBytes(r)
                        /\ collected_bytes' = << >>
                        /\ offset' = 0
                        /\ IF 0 < EncoderTotalBytes(r)
                           THEN Goto("enc_chunk_write")
                           ELSE Return(RetList(UnpackInts(<< >>)), "zero_bytes")
                   ELSE /\ Return(RetList(<< >>), "unexpected_status")
                        /\ UNCHANGED << total_bytes, offset, collected_bytes >>
    /\ UNCHANGED << op, args, buf, results, polls, errOffset, armedAtCall, seen >>

read_encoder_data_chunk_write ==
    /\ pc = "enc_chunk_write"
    /\ buf' = EncoderChunkData(offset)
    /\ \E ok \in WriteOutcomes :
        /\ write_i2c_block_data(PICO2_ADDR, CMD_READ_CHUNK, EncoderChunkData(offset), ok)
        /\ IF ok THEN Goto("enc_chunk_read")
           ELSE Return(RetList(<< >>), "transport_error")
    /\ UNCHANGED << op, args, status_buf, total_bytes, offset, results, collected_bytes,
                    polls, errOffset, armedAtCall, seen >>

read_encoder_data_chunk_read ==
    /\ pc = "enc_chunk_read"
    /\ \E r \in ReadOutcomes(PICO2_ADDR, 6) :
        /\ read_i2c_block_data(PICO2_ADDR, 6, r)
        /\ IF r = OSError
           THEN /\ Return(RetList(<< >>), "transport_error")
                /\ UNCHANGED << offset, collected_bytes, errOffset >>
           ELSE IF EncoderChunkOk(r)
           THEN /\ collected_bytes' = collected_bytes \o SubSeq(r, 2, 5)
                /\ offset' = offset + 4
                /\ UNCHANGED errOffset
                /\ IF offset + 4 < total_bytes
                   THEN Goto("enc_chunk_write")
                   ELSE Return(RetList(UnpackInts(collected_bytes \o SubSeq(r, 2, 5))),
                               "ok")
           ELSE /\ errOffset' = offset
                /\ UNCHANGED << offset, collected_bytes >>
                /\ Return(RetList(UnpackInts(collected_bytes)), "chunk_abort")
    /\ UNCHANGED << op, args, buf, status_buf, total_bytes, results, polls,
                    armedAtCall, seen >>

(***************************************************************************)
(* The caller takes the returned value and is ready for the next call      *)
(***************************************************************************)
Recorded == { "not_ready", "unexpected_status", "transport_error" }

ResetCall ==
    /\ pc = "done"
    /\ pc' = "idle"
    /\ op' = "none"
    /\ args' = NoArgs
    /\ buf' = << >>
    /\ status_buf' = << >>
    /\ total_bytes' = 0
    /\ offset' = 0
    /\ results' = << >>
    /\ collected_bytes' = << >>
    /\ result' = RetNone
    /\ outcome' = "none"
    /\ trace' = << >>
    /\ polls' = 0
    /\ errOffset' = -1
    /\ armedAtCall' = -1
    /\ UNCHANGED busVars

Reset ==
    /\ ResetCall
    /\ main_state = "library"
    /\ UNCHANGED << main_state, gui >>
    /\ other' = [other EXCEPT !.calls = 0]

ret ==
    /\ Reset
    /\ UNCHANGED seen

\* the same, remembering what a not-ready or failed call returned
ret_record ==
    /\ Reset
    /\ seen' = IF outcome \in Recorded THEN seen \cup { << op, outcome, result >> }
               ELSE seen

Next ==
    \/ start_motor_call
    \/ start_motor_write
    \/ start_motor_read
    \/ stop_motor_call
    \/ emergency_stop_motor_call
    \/ stop_motor_write
    \/ stop_motor_read
    \/ capture_and_read_hlfb_call
    \/ capture_and_read_hlfb_record
    \/ capture_and_read_hlfb_poll
    \/ capture_and_read_hlfb_chunk_write
    \/ capture_and_read_hlfb_chunk_read
    \/ read_single_sample_call
    \/ read_single_sample_write
    \/ read_single_sample_read
    \/ arm_encoder_call
    \/ arm_encoder_write
    \/ read_encoder_data_call
    \/ read_encoder_data_status
    \/ read_encoder_data_chunk_write
    \/ read_encoder_data_chunk_read
    \/ ret

Spec == Init /\ [][Next]_vars

\* The encoder operations alone, with the history of their failed calls
NextOutcomes ==
    \/ read_single_sample_call
    \/ read_single_sample_write
    \/ read_single_sample_read
    \/ read_encoder_data_call
    \/ read_encoder_data_status
    \/ read_encoder_data_chunk_write
    \/ read_encoder_data_chunk_read
    \/ ret_record

SpecOutcomes == Init /\ [][NextOutcomes]_vars

(***************************************************************************)
(* main(): the command loop                                                *)
(***************************************************************************)
\* main() after init_bus and configure_motor, at the command prompt
InitMain ==
    /\ InitCore
    /\ main_state = "running"

\* case "exit": stop_motor(bus), then break
main_exit ==
    /\ pc = "idle"
    /\ main_state = "running"
    /\ main_state' = "exiting"
    /\ op' = "stop_motor"
    /\ args' = NoArgs
    /\ buf' = StopFrame
    /\ Goto("stop_motor_write")
    /\ UNCHANGED << busVars, trace, seen, other, gui, status_buf, total_bytes, offset,
                    results, collected_bytes, polls, errOffset, armedAtCall >>

\* except KeyboardInterrupt: Ctrl-C at the prompt or inside a command;
\* the command is left where it stands and stop_motor(bus) is called
keyboard_interrupt ==
    /\ pc # "done"
    /\ main_state = "running"
    /\ main_state' = "interrupted"
    /\ op' = "stop_motor"
    /\ args' = NoArgs
    /\ buf' = StopFrame
    /\ Goto("stop_motor_write")
    /\ UNCHANGED << busVars, trace, seen, other, gui, status_buf, total_bytes, offset,
                    results, collected_bytes, polls, errOffset, armedAtCall >>

\* what the command loop does with the value a call hands back: an
\* exception leaving the call, or hlfb_data[:] on None, lands in
\* `except Exception`, outside the loop; `finally` closes the bus
AfterCommand ==
    IF main_state \in { "exiting", "interrupted" } THEN "exited"
    ELSE IF result.kind = "raise" THEN "crashed"
    ELSE IF op = "capture_and_read_hlfb" /\ result.kind = "None" THEN "crashed"
    ELSE "running"

\* the call is back; when the loop is left, the last command's transfers
\* stay in the trace
main_ret ==
    /\ main_state \in { "running", "exiting", "interrupted" }
    /\ main_state' = AfterCommand
    /\ IF AfterCommand = "running"
       THEN /\ ResetCall
            /\ other' = [other EXCEPT !.calls = 0]
       ELSE /\ pc = "done"
            /\ UNCHANGED << busVars, pc, op, args, locals, result, outcome, trace,
                            armedAtCall, other >>
    /\ UNCHANGED << seen, gui >>

\* finally: motor_control.close_bus(bus)
main_finally ==
    /\ main_state \in { "exited", "crashed" }
    /\ main_state' = "closed"
    /\ UNCHANGED << busVars, pc, op, args, locals, result, outcome, trace, armedAtCall,
                    seen, other, gui >>

NextMain ==
    \/ start_motor_call
    \/ start_motor_write
    \/ start_motor_read
    \/ stop_motor_call
    \/ emergency_stop_motor_call
    \/ stop_motor_write
    \/ stop_motor_read
    \/ capture_and_read_hlfb_call
    \/ capture_and_read_hlfb_record
    \/ capture_and_read_hlfb_poll
    \/ capture_and_read_hlfb_chunk_write
    \/ capture_and_read_hlfb_chunk_read
    \/ read_single_sample_call
    \/ read_single_sample_write
    \/ read_single_sample_read
    \/ arm_encoder_call
    \/ arm_encoder_write
    \/ read_encoder_data_call
    \/ read_encoder_data_status
    \/ read_encoder_data_chunk_write
    \/ read_encoder_data_chunk_read
    \/ main_exit
    \/ keyboard_interrupt
    \/ main_ret
    \/ main_finally

SpecMain == InitMain /\ [][NextMain]_vars

(***************************************************************************)
(* main.emergency_stop_handler: the gpiozero when_pressed callback, run on *)
(* gpiozero's own thread with the module-global bus                        *)
(***************************************************************************)
mainVars == << pc, op, args, buf, status_buf, total_bytes, offset, results,
               collected_bytes, result, outcome, polls, errOffset, armedAtCall, seen,
               main_state, gui >>

\* the first bus transfer of the second thread's current call
FirstOf(e) == IF other.first = << >> THEN << e >> ELSE other.first

\* the handler only runs once the first thread is idle
emergency_stop_handler_WaitsForIdle ==
    /\ pc = "idle"
    /\ main_state \in { "running", "exiting" }
    /\ other.pc = "idle"
    /\ other.calls < MaxOtherCalls
    /\ other' = [other EXCEPT !.pc = "estop_write", !.op = "emergency_stop_motor",
                              !.calls = @ + 1, !.first = << >>]
    /\ UNCHANGED << busVars, trace, mainVars >>

\* the button is pressed: bus is not None, so emergency_stop_motor(bus) is
\* called; main never sets bus back to None, close_bus(bus) or not
emergency_stop_handler ==
    /\ main_state \in { "running", "exiting", "interrupted", "exited", "crashed",
                         "closed" }
    /\ other.pc = "idle"
    /\ other.calls < MaxOtherCalls
    /\ other' = [other EXCEPT !.pc = "estop_write", !.op = "emergency_stop_motor",
                              !.calls = @ + 1, !.first = << >>]
    /\ UNCHANGED << busVars, trace, mainVars >>

emergency_stop_handler_write ==
    /\ other.pc = "estop_write"
    /\ \E ok \in WriteOutcomes :
        /\ BusWrite("other", I2C_PICO_ADDR, 0, EmergencyStopFrame, ok)
        /\ other' = [other EXCEPT
                        !.pc = IF ok THEN "estop_read" ELSE "done",
                        !.first = FirstOf([t |-> "w", addr |-> I2C_PICO_ADDR,
                                           reg |-> 0, data |-> EmergencyStopFrame])]
    /\ UNCHANGED mainVars

emergency_stop_handler_read ==
    /\ other.pc = "estop_read"
    /\ \E r \in ReadOutcomes(I2C_PICO_ADDR, I2C_BUFFER_SIZE) :
        BusRead("other", I2C_PICO_ADDR, I2C_BUFFER_SIZE, r)
    /\ other' = [other EXCEPT !.pc = "done"]
    /\ UNCHANGED mainVars

\* the second thread's call returns
other_return ==
    /\ other.pc = "done"
    /\ other' = [other EXCEPT !.pc = "idle", !.op = "none", !.num_samples = 0,
                              !.total_bytes = 0, !.offset = 0, !.results = << >>,
                              !.polls = 0]
    /\ UNCHANGED << busVars, trace, mainVars >>

\* the command loop issuing stop, hlfb and exit while the E-stop button may be
\* pressed
NextHandler ==
    \/ stop_motor_call
    \/ stop_motor_write
    \/ stop_motor_read
    \/ capture_and_read_hlfb_call
    \/ capture_and_read_hlfb_record
    \/ capture_and_read_hlfb_poll
    \/ capture_and_read_hlfb_chunk_write
    \/ capture_and_read_hlfb_chunk_read
    \/ main_exit
    \/ main_ret
    \/ main_finally
    \/ emergency_stop_handler
    \/ emergency_stop_handler_write
    \/ emergency_stop_handler_read
    \/ other_return

\* main() run with DEV_MODE = True: the bus is the DummyBus emulator
InitHandler ==
    /\ InitMain
    /\ dev_mode

SpecHandler == InitHandler /\ [][NextHandler]_vars

(***************************************************************************)
(* A second caller of motor_control.capture_and_read_hlfb on the same bus  *)
(* object, with its own locals                                             *)
(***************************************************************************)
\* sample counts either caller asks for: one rejected, one giving two chunks
SharedSamples == { 0, 2 }

first_capture_call == CaptureCall(SharedSamples)

second_capture_call ==
    /\ main_state = "library"
    /\ other.pc = "idle"
    /\ other.calls < MaxOtherCalls
    /\ \E n \in SharedSamples :
        other' = [other EXCEPT !.pc = IF SamplesValid(n) THEN "hlfb_record" ELSE "done",
                               !.op = "capture_and_read_hlfb",
                               !.num_samples = n,
                               !.calls = @ + 1,
                               !.first = << >>]
    /\ UNCHANGED << busVars, trace, mainVars >>

second_capture_record ==
    /\ other.pc = "hlfb_record"
    /\ \E ok \in WriteOutcomes :
        /\ BusWrite("other", I2C_PICO_ADDR, 0, RecordHlfbFrame(other.num_samples), ok)
        /\ other' = [other EXCEPT !.pc = IF ok THEN "hlfb_poll" ELSE "done"]
    /\ UNCHANGED mainVars

second_capture_poll ==
    /\ other.pc = "hlfb_poll"
    /\ \E r \in ReadOutcomes(I2C_PICO_ADDR, I2C_BUFFER_SIZE) :
        /\ r # OSError /\ PollAgain(r[1]) => other.polls < MaxPolls
        /\ BusRead("other", I2C_PICO_ADDR, I2C_BUFFER_SIZE, r)
        /\ other' =
              IF r = OSError THEN [other EXCEPT !.pc = "done"]
              ELSE IF PollAgain(r[1]) THEN [other EXCEPT !.polls = @ + 1]
              ELSE IF PollClass(r[1]) = "recorded" /\ HlfbTotalBytes(r) # 0
              THEN [other EXCEPT !.pc = "hlfb_chunk_write",
                                 !.total_bytes = HlfbTotalBytes(r),
                                 !.offset = 0, !.results = << >>]
              ELSE [other EXCEPT !.pc = "done"]
    /\ UNCHANGED mainVars

\* the second caller's request never reaches the slot the first caller reads
second_capture_chunk_write_OwnBus ==
    /\ other.pc = "hlfb_chunk_write"
    /\ trace' = Append(trace, [by |-> "other", t |-> "w", addr |-> I2C_PICO_ADDR,
                               reg |-> 0, len |-> I2C_BUFFER_SIZE,
                               data |-> HlfbChunkRequest(other.offset), ok |-> TRUE])
    /\ other' = [other EXCEPT !.pc = "hlfb_chunk_read"]
    /\ UNCHANGED << busVars, mainVars >>

second_capture_chunk_write ==
    /\ other.pc = "hlfb_chunk_write"
    /\ \E ok \in WriteOutcomes :
        /\ BusWrite("other", I2C_PICO_ADDR, 0, HlfbChunkRequest(other.offset), ok)
        /\ other' = [other EXCEPT !.pc = IF ok THEN "hlfb_chunk_read" ELSE "done"]
    /\ UNCHANGED mainVars

second_capture_chunk_read ==
    /\ other.pc = "hlfb_chunk_read"
    /\ \E r \in ReadOutcomes(I2C_PICO_ADDR, I2C_BUFFER_SIZE) :
        /\ BusRead("other", I2C_PICO_ADDR, I2C_BUFFER_SIZE, r)
        /\ other' =
              IF r = OSError THEN [other EXCEPT !.pc = "done"]
              ELSE IF HlfbChunkOk(r)
              THEN [other EXCEPT
                      !.results = Append(@, UnpackF32(SubSeq(r, 2, 5))),
                      !.offset = IF HlfbHasNext(other.offset, other.total_bytes)
                                 THEN @ + 4 ELSE @,
                      !.pc = IF HlfbHasNext(other.offset, other.total_bytes)
                             THEN "hlfb_chunk_write" ELSE "done"]
              ELSE [other EXCEPT !.pc = "done"]
    /\ UNCHANGED mainVars

\* two callers of capture_and_read_hlfb sharing the DummyBus emulator
InitTwoCallers ==
    /\ Init
    /\ dev_mode

NextTwoCallers ==
    \/ first_capture_call
    \/ capture_and_read_hlfb_record
    \/ capture_and_read_hlfb_poll
    \/ capture_and_read_hlfb_chunk_write
    \/ capture_and_read_hlfb_chunk_read
    \/ ret
    \/ second_capture_call
    \/ second_capture_record
    \/ second_capture_poll
    \/ second_capture_chunk_write
    \/ second_capture_chunk_read
    \/ other_return

SpecTwoCallers == InitTwoCallers /\ [][NextTwoCallers]_vars

(***************************************************************************)
(* The DummyBus methods called directly, in any order                      *)
(***************************************************************************)
\* the writes tried on the emulator: the frames the host sends to the motor
\* peripheral, and at the encoder address RECORD, SINGLE_SHOT, a chunk
\* request as a 6-byte frame, and the chunk request of read_encoder_data
DummyWrites ==
    { [addr |-> I2C_PICO_ADDR, reg |-> 0, data |-> d] :
        d \in { EmergencyStopFrame, RecordHlfbFrame(2), HlfbChunkRequest(4) } }
    \cup { [addr |-> PICO2_ADDR, reg |-> 0, data |-> d] :
             d \in { RecordFrame(2), RecordFrame(65), SingleShotFrame } }
    \cup { [addr |-> PICO2_ADDR, reg |-> 0,
            data |-> << CMD_READ_CHUNK, Lo(k), Hi(k), 0, 0, 0 >>] : k \in { 0, 6, 8 } }
    \cup { [addr |-> PICO2_ADDR, reg |-> CMD_READ_CHUNK, data |-> EncoderChunkData(4)] }

DummyReads ==
    { [addr |-> a, len |-> I2C_BUFFER_SIZE] : a \in Addrs }
    \cup { [addr |-> PICO2_ADDR, len |-> SingleShotReadLen] }

DummyBus_write_i2c_block_data ==
    /\ Len(trace) < MaxBusOps
    /\ \E w \in DummyWrites : BusWrite("main", w.addr, w.reg, w.data, TRUE)
    /\ UNCHANGED << mainVars, other >>

DummyBus_read_i2c_block_data ==
    /\ Len(trace) < MaxBusOps
    /\ \E rd \in DummyReads :
        BusRead("main", rd.addr, rd.len, DummyRead(last_write, memory, rd.addr, rd.len))
    /\ UNCHANGED << mainVars, other >>

InitDummyBus ==
    /\ Init
    /\ dev_mode

NextDummyBus ==
    \/ DummyBus_write_i2c_block_data
    \/ DummyBus_read_i2c_block_data

SpecDummyBus == InitDummyBus /\ [][NextDummyBus]_vars

(***************************************************************************)
(* The offset of a chunk-read request: built by the host, decoded by       *)
(* DummyBus                                                                *)
(***************************************************************************)
\* range(0, 65536, 4): the offsets two bytes can carry
ChunkOffsets == { 4 * q : q \in 0..16383 }

\* the offset DummyBus.read_i2c_block_data takes from the last write at addr,
\* none when it does not take that write for a chunk-read request
DummyDecodeOffset(lw, addr) ==
    LET last == lw[addr]
        data == last.data
    IN IF addr = I2C_PICO_ADDR
       THEN IF last.set /\ data[1] = CMD_READ_HLFB_CHUNK
            THEN RetVal(DummyOffset(data)) ELSE RetNone
       ELSE IF /\ last.set
               /\ data[1] # CMD_SINGLE_SHOT /\ data[1] # CMD_RECORD
               /\ Len(data) >= 3 /\ data[1] = CMD_READ_CHUNK
            THEN RetVal(DummyOffset(data)) ELSE RetNone

\* capture_and_read_hlfb: the chunk request for `offset`
capture_and_read_hlfb_chunk_request ==
    /\ pc = "idle"
    /\ pc' = "chunk_requested"
    /\ op' = "capture_and_read_hlfb"
    /\ buf' = HlfbChunkRequest(offset)
    /\ BusWrite("main", I2C_PICO_ADDR, 0, buf', TRUE)
    /\ UNCHANGED << args, status_buf, total_bytes, offset, results, collected_bytes,
                    result, outcome, polls, errOffset, armedAtCall, seen, extVars >>

\* read_encoder_data: the chunk request for `offset`
read_encoder_data_chunk_request ==
    /\ pc = "idle"
    /\ pc' = "chunk_requested"
    /\ op' = "read_encoder_data"
    /\ buf' = EncoderChunkData(offset)
    /\ BusWrite("main", PICO2_ADDR, CMD_READ_CHUNK, buf', TRUE)
    /\ UNCHANGED << args, status_buf, total_bytes, offset, results, collected_bytes,
                    result, outcome, polls, errOffset, armedAtCall, seen, extVars >>

\* DummyBus.read_i2c_block_data: the offset taken from the request
DummyBus_decode_offset ==
    /\ pc = "chunk_requested"
    /\ pc' = "decoded"
    /\ result' = DummyDecodeOffset(last_write,
                    IF op = "capture_and_read_hlfb" THEN I2C_PICO_ADDR ELSE PICO2_ADDR)
    /\ UNCHANGED << busVars, trace, op, args, locals, outcome, armedAtCall, seen,
                    extVars >>

InitCodec ==
    /\ dev_mode = TRUE
    /\ last_write = [a \in Addrs |-> NoWrite]
    /\ memory = << >>
    /\ pc = "idle"
    /\ op = "none"
    /\ args = NoArgs
    /\ buf = << >>
    /\ status_buf = << >>
    /\ total_bytes = 0
    /\ offset \in ChunkOffsets
    /\ results = << >>
    /\ collected_bytes = << >>
    /\ result = RetNone
    /\ outcome = "none"
    /\ trace = << >>
    /\ polls = 0
    /\ errOffset = -1
    /\ armedAtCall = -1
    /\ seen = {}
    /\ other = OtherIdle
    /\ gui = GuiInit
    /\ main_state = "library"

NextCodec ==
    \/ capture_and_read_hlfb_chunk_request
    \/ read_encoder_data_chunk_request
    \/ DummyBus_decode_offset

SpecCodec == InitCodec /\ [][NextCodec]_vars

(***************************************************************************)
(* gui.PitchMasterWindow: the handlers of the control panel.  Qt runs one  *)
(* handler at a time, to its end.  Kept of the window: estop_engaged,      *)
(* max_speed and whether the motor controls are enabled; the data shown    *)
(* and saved (speed, hlfb_data, encoder_data, the log) is left out.        *)
(***************************************************************************)
Handlers ==
    { "on_max_speed_changed", "on_start", "on_stop", "on_engage_estop",
      "on_release_estop", "on_read_position", "on_arm_encoder", "on_read_encoder_data",
      "on_capture_hlfb", "on_save_csv", "on_reset_all" }

\* the handler that calls the function
HandlerOf(f) ==
    CASE f = "start_motor" -> "on_start"
      [] f = "stop_motor" -> "on_stop"
      [] f = "emergency_stop_motor" -> "on_engage_estop"
      [] f = "read_single_sample" -> "on_read_position"
      [] f = "arm_encoder" -> "on_arm_encoder"
      [] f = "read_encoder_data" -> "on_read_encoder_data"
      [] f = "capture_and_read_hlfb" -> "on_capture_hlfb"
      [] OTHER -> "none"

\* float(text) of the max speed box, << >> for None
GuiMaxSpeeds == { << >> } \cup { << m >> : m \in MaxSpeeds }

\* _update_motor_controls_enabled
MotorControlsEnabled(max_speed, estop_engaged) == max_speed # << >> /\ ~estop_engaged

\* a handler, or a path through one, that calls no bus function
GuiOnly(g) ==
    /\ pc = "idle"
    /\ main_state = "gui"
    /\ gui' = g
    /\ UNCHANGED << busVars, pc, op, args, locals, result, outcome, trace, armedAtCall,
                    seen, main_state, other >>

\* a handler that calls a bus function: the call
GuiCall(call) ==
    /\ main_state = "gui"
    /\ call

on_max_speed_changed ==
    \E v \in GuiMaxSpeeds :
        GuiOnly([gui EXCEPT !.handler = "on_max_speed_changed", !.max_speed = v,
                            !.enabled = MotorControlsEnabled(v, gui.estop_engaged)])

\* operating speed above max_speed / 60, or ramp outside 0..255: a warning
StartRejected(ms, os, rm) == os * 60 > ms \/ rm < 0 \/ rm > 255

on_start ==
    IF gui.estop_engaged \/ gui.max_speed = << >>
    THEN GuiOnly([gui EXCEPT !.handler = "on_start"])
    ELSE \/ /\ \E os \in OperatingSpeeds, rm \in RampMultipliers :
                StartRejected(gui.max_speed[1], os, rm)
            /\ GuiOnly([gui EXCEPT !.handler = "on_start"])
         \/ /\ GuiCall(start_motor_call)
            /\ args'.max_speed = gui.max_speed[1]
            /\ ~StartRejected(args'.max_speed, args'.operating_speed,
                              args'.ramp_multiplier)
            /\ args'.direction_string \in { "cw", "ccw" }

on_stop == GuiCall(stop_motor_call)

on_engage_estop == GuiCall(emergency_stop_motor_call)

\* the rest of on_engage_estop, whatever emergency_stop_motor did
on_engage_estop_latch ==
    /\ ResetCall
    /\ main_state = "gui"
    /\ op = "emergency_stop_motor"
    /\ gui' = [gui EXCEPT !.handler = "on_engage_estop", !.estop_engaged = TRUE,
                          !.enabled = MotorControlsEnabled(gui.max_speed, TRUE)]
    /\ UNCHANGED << seen, main_state, other >>

\* the release enables the panel, max speed or not
on_release_estop_EnablesAll ==
    GuiOnly([gui EXCEPT !.handler = "on_release_estop", !.estop_engaged = FALSE,
                        !.enabled = TRUE])

on_release_estop ==
    GuiOnly([gui EXCEPT !.handler = "on_release_estop", !.estop_engaged = FALSE,
                        !.enabled = MotorControlsEnabled(gui.max_speed, FALSE)])

on_read_position == GuiCall(read_single_sample_call)

\* armed whatever the E-Stop
on_arm_encoder_Unguarded == GuiCall(arm_encoder_call)

on_arm_encoder ==
    IF gui.estop_engaged
    THEN GuiOnly([gui EXCEPT !.handler = "on_arm_encoder"])
    ELSE GuiCall(arm_encoder_call)

on_read_encoder_data == GuiCall(read_encoder_data_call)

on_capture_hlfb == GuiCall(CaptureCall(SharedSamples))

on_save_csv == GuiOnly([gui EXCEPT !.handler = "on_save_csv"])

\* everything back to what __init__ set
on_reset_all_Defaults ==
    GuiOnly([GuiInit EXCEPT !.handler = "on_reset_all"])

on_reset_all ==
    GuiOnly([gui EXCEPT !.handler = "on_reset_all", !.max_speed = << >>,
                        !.enabled = MotorControlsEnabled(<< >>, gui.estop_engaged)])

\* the called function is back: the handler logs and ends
handler_return ==
    /\ ResetCall
    /\ main_state = "gui"
    /\ op # "emergency_stop_motor"
    /\ gui' = [gui EXCEPT !.handler = HandlerOf(op)]
    /\ UNCHANGED << seen, main_state, other >>

InitGui ==
    /\ InitCore
    /\ main_state = "gui"

NextGui ==
    \/ on_max_speed_changed
    \/ on_start
    \/ start_motor_write
    \/ start_motor_read
    \/ on_stop
    \/ on_engage_estop
    \/ stop_motor_write
    \/ stop_motor_read
    \/ on_engage_estop_latch
    \/ on_release_estop
    \/ on_read_position
    \/ read_single_sample_write
    \/ read_single_sample_read
    \/ on_arm_encoder
    \/ arm_encoder_write
    \/ on_read_encoder_data
    \/ read_encoder_data_status
    \/ read_encoder_data_chunk_write
    \/ read_encoder_data_chunk_read
    \/ on_capture_hlfb
    \/ capture_and_read_hlfb_record
    \/ capture_and_read_hlfb_poll
    \/ capture_and_read_hlfb_chunk_write
    \/ capture_and_read_hlfb_chunk_read
    \/ on_save_csv
    \/ on_reset_all
    \/ handler_return

SpecGui == InitGui /\ [][NextGui]_vars

(***************************************************************************)
(* The encoder operations on DummyBus, the caller remembering its finished *)
(* calls in order                                                          *)
(***************************************************************************)
ret_session ==
    /\ Reset
    /\ Cardinality(seen) < MaxCalls
    /\ seen' = seen \cup { [k |-> Cardinality(seen) + 1, op |-> op,
                             num_samples |-> args.num_samples, outcome |-> outcome] }

InitSession ==
    /\ Init
    /\ dev_mode

NextSession ==
    \/ read_single_sample_call
    \/ read_single_sample_write
    \/ read_single_sample_read
    \/ arm_encoder_call
    \/ arm_encoder_write
    \/ read_encoder_data_call
    \/ read_encoder_data_status
    \/ read_encoder_data_chunk_write
    \/ read_encoder_data_chunk_read
    \/ ret_session

SpecSession == InitSession /\ [][NextSession]_vars

\* start_motor alone; the caller remembers the last completed start
ret_record_start ==
    /\ Reset
    /\ seen' = IF op = "start_motor" /\ outcome = "ok"
               THEN { [args |-> args, status |-> status_buf[1], result |-> result] }
               ELSE seen

NextStart ==
    \/ start_motor_call
    \/ start_motor_write
    \/ start_motor_read
    \/ ret_record_start

SpecStart == Init /\ [][NextStart]_vars

\* capture_and_read_hlfb alone.  Once the chunk loop is entered the caller
\* keeps running and every bus call returns or raises, so the chunk steps are
\* weakly fair; what the peripheral answers to a status poll is its own
\* choice, so no fairness is assumed on the poll loop.
NextCapture ==
    \/ capture_and_read_hlfb_call
    \/ capture_and_read_hlfb_record
    \/ capture_and_read_hlfb_poll
    \/ capture_and_read_hlfb_chunk_write
    \/ capture_and_read_hlfb_chunk_read
    \/ ret

SpecCapture ==
    /\ Init
    /\ [][NextCapture]_vars
    /\ WF_vars(capture_and_read_hlfb_chunk_write)
    /\ WF_vars(capture_and_read_hlfb_chunk_read)

TypeOK ==
    /\ dev_mode \in BOOLEAN
    /\ pc \in { "idle", "done", "start_motor_write", "start_motor_read",
                "stop_motor_write", "stop_motor_read", "hlfb_record", "hlfb_poll",
                "hlfb_chunk_write", "hlfb_chunk_read", "single_write", "single_read",
                "arm_write", "enc_status", "enc_chunk_write", "enc_chunk_read" }
    /\ polls \in 0..MaxPolls
    /\ offset % 4 = 0
    /\ main_state \in { "library", "running", "exiting", "interrupted", "exited", "crashed",
                       "closed", "gui" }
    /\ gui.handler \in { "none" } \cup Handlers
    /\ gui.estop_engaged \in BOOLEAN
    /\ gui.enabled \in BOOLEAN
    /\ other.pc \in { "idle", "done", "estop_write", "estop_read", "hlfb_record",
                      "hlfb_poll", "hlfb_chunk_write", "hlfb_chunk_read" }
    /\ other.calls \in 0..MaxOtherCalls
    /\ other.offset % 4 = 0
    /\ \A i \in 1..Len(trace) : trace[i].by \in { "main", "other" }


(***************************************************************************)
(* Reading the trace of the current call                                   *)
(***************************************************************************)
IsChunkReq(e) ==
    /\ e.t = "w"
    /\ \/ e.addr = I2C_PICO_ADDR /\ e.data[1] = CMD_READ_HLFB_CHUNK
       \/ e.addr = PICO2_ADDR /\ e.reg = CMD_READ_CHUNK

\* offset carried by a chunk request, low byte first
ReqOffset(e) ==
    IF e.addr = I2C_PICO_ADDR THEN e.data[2] + e.data[3] * 256
    ELSE e.data[1] + e.data[2] * 256

ChunkReqs == SelectSeq(trace, IsChunkReq)

\* the read that answers a chunk request
IsChunkRead(i) == i > 1 /\ trace[i].t = "r" /\ IsChunkReq(trace[i - 1])

\* a status read of the poll loop: a read with no chunk request before it
IsPollRead(i) ==
    /\ trace[i].t = "r"
    /\ \A j \in 1..(i - 1) : ~IsChunkReq(trace[j])

ChunkStatusOf(addr) ==
    IF addr = I2C_PICO_ADDR THEN STATUS_HLFB_DATA_CHUNK ELSE STATUS_CHUNK

InTransfer == op \in { "capture_and_read_hlfb", "read_encoder_data" }

\* operating_speed * 60 / max_speed is not a number in [0, 1]
DutyOutOfRange(ms, os) ==
    \/ ms = 0
    \/ os * 60 * ms < 0
    \/ Abs(os * 60) > Abs(ms)

\* k is Python's round(p / q), p >= 0, q > 0
IsRounded(k, p, q) ==
    /\ 2 * Abs(p - k * q) <= q
    /\ 2 * Abs(p - k * q) = q => k % 2 = 0

\* the last status read is the ready status with a byte count of 0
AdvertisedZero ==
    /\ status_buf # << >>
    /\ \/ /\ op = "capture_and_read_hlfb"
          /\ status_buf[1] = STATUS_HLFB_RECORDED
          /\ status_buf[3] = 0 /\ status_buf[4] = 0
       \/ /\ op = "read_encoder_data"
          /\ status_buf[1] = STATUS_READY
          /\ status_buf[2] = 0 /\ status_buf[3] = 0

\* the poll loop's rule for a given set of non-terminal statuses
PollLoopRule(nonTerminal) ==
    op = "capture_and_read_hlfb" =>
        \A i \in 1..Len(trace) :
            (IsPollRead(i) /\ trace[i].ok) =>
                LET st == trace[i].data[1]
                IN /\ st = STATUS_HLFB_RECORDED =>
                        (i < Len(trace) => IsChunkReq(trace[i + 1]))
                   /\ st \notin (nonTerminal \cup { STATUS_HLFB_RECORDED }) =>
                        /\ i = Len(trace)
                        /\ pc = "done"
                        /\ ChunkReqs = << >>
                   /\ (i < Len(trace) /\ trace[i + 1].t = "r") => st \in nonTerminal

IsRead(e) == e.t = "r"

\* byte count of an HLFB_RECORDED frame: bytes 2-3, low byte first
HlfbTotalBytesOf(f) == f[3] + 256 * f[4]

\* every transfer from index i on succeeded and every chunk answer is a chunk
AllChunksServed(i) ==
    \A j \in i..Len(trace) :
        /\ trace[j].ok
        /\ trace[j].t = "r" => trace[j].data[1] = STATUS_HLFB_DATA_CHUNK

\* the float carried in bytes 1-4 of a chunk frame, most significant byte last
FloatOf(f) ==
    LET ex == (f[5] % 128) * 2 + f[4] \div 128
        mant == (f[4] % 128) * 65536 + f[3] * 256 + f[2]
    IN IF ex = 0 THEN Normalise(f[5] \div 128, mant, -149)
       ELSE Normalise(f[5] \div 128, 8388608 + mant, ex - 150)

IsCapturingRead(e) == e.t = "r" /\ e.ok /\ e.data[1] = STATUS_HLFB_CAPTURING

\* number of HLFB_CAPTURING answers that follow the RECORD_HLFB write
LeadingCapturing ==
    CHOOSE k \in 0..Len(trace) :
        /\ \A j \in 2..(k + 1) : j <= Len(trace) /\ IsCapturingRead(trace[j])
        /\ (k + 2 <= Len(trace) => ~IsCapturingRead(trace[k + 2]))

\* every status read so far succeeded and carried a non-terminal status
OnlyNonTerminalReads ==
    \A i \in 2..Len(trace) :
        /\ trace[i].t = "r" /\ trace[i].ok
        /\ trace[i].data[1] \in { STATUS_HLFB_CAPTURING, CMD_RECORD_HLFB }

InHlfbChunkPhase == pc \in { "hlfb_chunk_write", "hlfb_chunk_read" }

\* bytes accepted so far by the chunked transfer of the current call
Accepted ==
    IF op = "capture_and_read_hlfb" THEN 4 * Len(results) ELSE Len(collected_bytes)

\* the ready status has been read and the chunk loop entered (or skipped)
TransferStarted ==
    /\ InTransfer
    /\ \/ pc \in { "hlfb_chunk_write", "hlfb_chunk_read", "enc_chunk_write",
                   "enc_chunk_read" }
       \/ pc = "done" /\ outcome \in { "ok", "chunk_abort", "zero_bytes" }
       \/ pc = "done" /\ ChunkReqs # << >>

\* the last transfer raised, or was a read answering a chunk request with
\* another status than the chunk status
ChunkExchangeFailed ==
    /\ trace # << >>
    /\ LET e == trace[Len(trace)]
       IN \/ ~e.ok
          \/ /\ IsChunkRead(Len(trace))
             /\ e.data[1] # ChunkStatusOf(e.addr)

HostOpcodes ==
    { CMD_START_SEQUENCE, CMD_STOP_SEQUENCE, CMD_EMERGENCY_STOP, CMD_RECORD_HLFB,
      CMD_READ_HLFB_CHUNK, CMD_RECORD, CMD_READ_CHUNK, CMD_SINGLE_SHOT }

\* number of payload bytes an opcode gives a meaning to
PayloadUsed(opcode) ==
    IF opcode = CMD_START_SEQUENCE THEN 4
    ELSE IF opcode \in { CMD_READ_HLFB_CHUNK, CMD_READ_CHUNK } THEN 2
    ELSE IF opcode \in { CMD_RECORD_HLFB, CMD_RECORD } THEN 1
    ELSE 0

\* the arguments of the current call pass every check of start_motor
StartArgsValid ==
    /\ 0 <= args.ramp_multiplier /\ args.ramp_multiplier <= 255
    /\ ~DutyOutOfRange(args.max_speed, args.operating_speed)
    /\ args.direction_string \in { "cw", "ccw" }

\* start_motor has written its frame, read a status frame and returned
StartCompleted == pc = "done" /\ op = "start_motor" /\ outcome = "ok"

\* the command loop is inside capture_and_read_hlfb
CaptureInFlight ==
    /\ op = "capture_and_read_hlfb"
    /\ pc \in { "hlfb_record", "hlfb_poll", "hlfb_chunk_write", "hlfb_chunk_read" }

\* indices of the reads the first caller made in its chunk loop, in order
RECURSIVE ChunkReadsFrom(_, _)
ChunkReadsFrom(j, started) ==
    IF j > Len(trace) THEN << >>
    ELSE IF trace[j].by # "main" THEN ChunkReadsFrom(j + 1, started)
    ELSE IF trace[j].t = "w"
    THEN ChunkReadsFrom(j + 1, started \/ IsChunkReq(trace[j]))
    ELSE IF started THEN << j >> \o ChunkReadsFrom(j + 1, started)
    ELSE ChunkReadsFrom(j + 1, started)

MainChunkReads == ChunkReadsFrom(1, FALSE)

\* index of the latest write before transfer j
LatestWriteBefore(j) ==
    CHOOSE w \in 1..(j - 1) :
        /\ trace[w].t = "w"
        /\ \A v \in (w + 1)..(j - 1) : trace[v].t # "w"

\* index of the latest write to address a before transfer i, 0 if none
LastWriteTo(a, i) ==
    IF \E w \in 1..(i - 1) : trace[w].t = "w" /\ trace[w].addr = a
    THEN CHOOSE w \in 1..(i - 1) :
            /\ trace[w].t = "w" /\ trace[w].addr = a
            /\ \A v \in (w + 1)..(i - 1) : ~(trace[v].t = "w" /\ trace[v].addr = a)
    ELSE 0

IsRecordWrite(e) ==
    /\ e.t = "w" /\ e.addr = PICO2_ADDR
    /\ Len(e.data) >= 2 /\ e.data[1] = CMD_RECORD

\* index of the latest RECORD write to the encoder address before i, 0 if none
LastRecordBefore(i) ==
    IF \E w \in 1..(i - 1) : IsRecordWrite(trace[w])
    THEN CHOOSE w \in 1..(i - 1) :
            /\ IsRecordWrite(trace[w])
            /\ \A v \in (w + 1)..(i - 1) : ~IsRecordWrite(trace[v])
    ELSE 0

\* what was written by transfer w (nothing when w = 0)
Written(w) == IF w = 0 THEN << >> ELSE << trace[w].reg, trace[w].data >>

\* the emulator state that the writes to address a alone, among the transfers
\* before i, would have left
LastWriteAlone(a, i) ==
    LET w == LastWriteTo(a, i)
    IN [b \in Addrs |->
          IF b = a /\ w # 0
          THEN [set |-> TRUE, reg |-> trace[w].reg, data |-> trace[w].data]
          ELSE NoWrite]

MemoryAlone(i) ==
    LET w == LastRecordBefore(i)
    IN IF w = 0 THEN << >> ELSE RecordBytes(SamplesOrDefault(trace[w].data[2]))

\* a chunk-read request at the encoder address written as a frame whose
\* byte 0 is the opcode
IsEncoderChunkFrame(e) ==
    /\ e.t = "w" /\ e.addr = PICO2_ADDR /\ e.reg = 0
    /\ Len(e.data) >= 3 /\ e.data[1] = CMD_READ_CHUNK

\* the chunk-read request as read_encoder_data writes it
IsEncoderChunkAsIssued(e) ==
    /\ e.t = "w" /\ e.addr = PICO2_ADDR /\ e.reg = CMD_READ_CHUNK
    /\ Len(e.data) = 2

EncoderReqOffset(e) ==
    IF IsEncoderChunkFrame(e) THEN e.data[2] + e.data[3] * 256
    ELSE e.data[1] + e.data[2] * 256

\* the read at i answers a chunk-read request, of one of the two forms, that
\* is the last write to the encoder address
AnswersEncoderChunk(i) ==
    LET w == LastWriteTo(PICO2_ADDR, i)
    IN /\ trace[i].t = "r" /\ trace[i].addr = PICO2_ADDR
       /\ trace[i].len = I2C_BUFFER_SIZE
       /\ w # 0
       /\ IsEncoderChunkFrame(trace[w]) \/ IsEncoderChunkAsIssued(trace[w])

ChunkOfMemory(i) ==
    LET k == EncoderReqOffset(trace[LastWriteTo(PICO2_ADDR, i)])
    IN << STATUS_CHUNK >> \o Ljust4(Slice(MemoryAlone(i), k, k + 4)) \o << 0 >>

\* a START frame at the motor address or a RECORD frame at the encoder address
IsStartOrArmWrite(e) ==
    /\ e.t = "w"
    /\ \/ e.addr = I2C_PICO_ADDR /\ e.data[1] = CMD_START_SEQUENCE
       \/ e.addr = PICO2_ADDR /\ e.data[1] = CMD_RECORD

\* the first thread wrote, or tried to write, a STOP frame to the motor
IsStopWrite(e) ==
    /\ e.by = "main" /\ e.t = "w" /\ e.addr = I2C_PICO_ADDR
    /\ e.data = StopFrame

\* the k-th finished call of the session
SessionCall(k) == CHOOSE c \in seen : c.k = k

\* the two calls finished last were arm_encoder(n), n in 1..255, and then
\* read_single_sample
ArmedThenSingleShot ==
    /\ Cardinality(seen) >= 2
    /\ LET a == SessionCall(Cardinality(seen) - 1)
           b == SessionCall(Cardinality(seen))
       IN /\ a.op = "arm_encoder" /\ a.outcome = "ok" /\ a.num_samples \in 1..255
          /\ b.op = "read_single_sample"

(***************************************************************************)
(* C1: on DummyBus, arm_encoder(n) followed by read_encoder_data with no   *)
(* other write to the encoder address in between observes READY with      *)
(* total_bytes = 4n and returns the first n table entries 10*(i mod 200).  *)
(***************************************************************************)
C1_ArmThenReadReturnsTable ==
    (dev_mode /\ pc = "done" /\ op = "read_encoder_data" /\ armedAtCall \in 1..255)
        => /\ trace[1].data[1] = STATUS_READY
           /\ total_bytes = 4 * armedAtCall
           /\ result = RetList([i \in 1..armedAtCall |-> 10 * ((i - 1) % 200)])

(***************************************************************************)
(* C2: on DummyBus, capture_and_read_hlfb(bus, n) requests the chunks at   *)
(* offsets 0, 4, ..., 4(n-1) in that order and returns n samples, sample i *)
(* being the value offset/4 the emulator serves for offset 4i; the number  *)
(* of samples is total_bytes / 4.                                          *)
(***************************************************************************)
C2_HlfbRoundTripOnDummyBus ==
    (dev_mode /\ pc = "done" /\ op = "capture_and_read_hlfb"
              /\ args.num_samples \in 1..255)
        => LET n == args.num_samples
           IN /\ Len(ChunkReqs) = n
              /\ \A i \in 1..n : ReqOffset(ChunkReqs[i]) = 4 * (i - 1)
              /\ result = RetList([i \in 1..n |-> Normalise(0, 4 * (i - 1), -2)])
              /\ \A i \in 1..n : result.val[i] = Normalise(0, i - 1, 0)
              /\ total_bytes = 4 * Len(result.val)
              /\ (total_bytes = 32 => Len(result.val) = 8)

C2_Witness ==
    /\ dev_mode /\ pc = "done" /\ op = "capture_and_read_hlfb"
    /\ total_bytes = 32 /\ Len(result.val) = 8
    /\ result.val[4] = << 0, 3, 0 >>

(***************************************************************************)
(* C3: start_motor with ramp_multiplier outside 0..255, or a duty cycle    *)
(* operating_speed*60/max_speed outside [0,1] (max_speed = 0 included), or *)
(* a direction other than cw/ccw ends without any write or read on the     *)
(* bus.                                                                    *)
(***************************************************************************)
C3_RejectedStartSendsNothing ==
    (op = "start_motor"
        /\ \/ args.ramp_multiplier < 0
           \/ args.ramp_multiplier > 255
           \/ DutyOutOfRange(args.max_speed, args.operating_speed)
           \/ args.direction_string \notin { "cw", "ccw" })
        => /\ trace = << >>
           /\ pc = "done"
           /\ result = RetNone

C3_Witness ==
    /\ op = "start_motor" /\ pc = "done" /\ trace = << >>
    /\ args.ramp_multiplier = 256
    /\ args.max_speed = 120 /\ args.operating_speed = 1 /\ args.direction_string = "cw"

(***************************************************************************)
(* C4: every START frame start_motor writes is                             *)
(* [1, duty_hi, duty_lo, ramp_multiplier, direction_bit, 0] with           *)
(* duty_hi*256 + duty_lo = round(duty_cycle * 65535) in 0..65535 (the      *)
(* nearest integer, a tie going to the even one), ramp_multiplier in       *)
(* 0..255 and direction_bit 0 for cw, 1 for ccw.                           *)
(***************************************************************************)
C4_StartFrameLayout ==
    op = "start_motor" =>
        \A i \in 1..Len(trace) :
            trace[i].t = "w" =>
                LET d == trace[i].data
                    k == d[2] * 256 + d[3]
                IN /\ Len(d) = 6
                   /\ trace[i].addr = I2C_PICO_ADDR
                   /\ d[1] = 1
                   /\ d[2] \in 0..255 /\ d[3] \in 0..255
                   /\ IsRounded(k, Abs(args.operating_speed * 60) * 65535,
                                Abs(args.max_speed))
                   /\ d[4] = args.ramp_multiplier /\ d[4] \in 0..255
                   /\ d[5] = (IF args.direction_string = "cw" THEN 0 ELSE 1)
                   /\ args.direction_string \in { "cw", "ccw" }
                   /\ d[6] = 0

C4_Witness ==
    /\ op = "start_motor" /\ Len(trace) >= 1
    /\ trace[1].t = "w" /\ trace[1].ok
    /\ trace[1].data = << 1, 128, 0, 255, 1, 0 >>


(***************************************************************************)
(* C5: when the ready status advertises total_bytes = 0, read_encoder_data *)
(* and capture_and_read_hlfb both return an empty sequence and issue no    *)
(* chunk request.                                                          *)
(***************************************************************************)
C5_ZeroBytesReturnsEmptySequence ==
    (pc = "done" /\ AdvertisedZero)
        => /\ result = RetList(<< >>)
           /\ ChunkReqs = << >>

(***************************************************************************)
(* C6: in both chunked transfers, when the response to the chunk request   *)
(* at offset k carries a status other than the chunk status, that response *)
(* is the last bus transfer of the call (no later chunk request), the call *)
(* has ended, and the offset reported is k.                                *)
(***************************************************************************)
C6_AbortOnUnexpectedChunkStatus ==
    InTransfer =>
        \A i \in 1..Len(trace) :
            (IsChunkRead(i) /\ trace[i].ok
                /\ trace[i].data[1] # ChunkStatusOf(trace[i].addr))
            => /\ i = Len(trace)
               /\ pc = "done"
               /\ errOffset = ReqOffset(trace[i - 1])
               /\ \A j \in 1..Len(trace) :
                    IsChunkReq(trace[j]) => ReqOffset(trace[j]) <= errOffset

C6_Witness ==
    /\ op = "capture_and_read_hlfb" /\ pc = "done"
    /\ errOffset = 8 /\ total_bytes = 12
    /\ Len(ChunkReqs) = 3

(***************************************************************************)
(* C7: a chunked transfer that aborts after collecting part of the         *)
(* advertised bytes returns nothing or an empty result, never a plain      *)
(* sequence of samples as a complete download does.                        *)
(***************************************************************************)
C7_AbortedTransferNotPlainList ==
    (pc = "done" /\ InTransfer /\ errOffset > 0)
        => ~(result.kind = "list" /\ result.val # << >>)

(***************************************************************************)
(* C8: what read_encoder_data returns on CAPTURING differs from what it    *)
(* returns on an unexpected status or a transport error, and what          *)
(* read_single_sample returns on a non-ready status differs from what it   *)
(* returns on a transport error.                                           *)
(***************************************************************************)
C8_NotReadyDiffersFromFailure ==
    \A a \in seen, b \in seen :
        (a[1] = b[1] /\ a[2] = "not_ready"
            /\ b[2] \in { "unexpected_status", "transport_error" })
        => a[3] # b[3]

(***************************************************************************)
(* C9: in the poll loop of capture_and_read_hlfb the only non-terminal     *)
(* status is HLFB_CAPTURING: HLFB_RECORDED ends the loop (the next         *)
(* transfer, if any, is a chunk request), every other status ends the call *)
(* with no chunk request, and no status other than HLFB_CAPTURING is       *)
(* followed by another poll read.                                          *)
(***************************************************************************)
C9_OnlyCapturingPollsAgain == PollLoopRule({ STATUS_HLFB_CAPTURING })

(***************************************************************************)
(* C9, amended: the non-terminal statuses of the poll loop are             *)
(* HLFB_CAPTURING and the value 3 (CMD_RECORD_HLFB, "Pico is not ready");  *)
(* HLFB_RECORDED ends the loop and starts the chunk download, every other  *)
(* status ends the call with no chunk request, and no status other than    *)
(* those two is followed by another poll read.                             *)
(***************************************************************************)
C9_CapturingOrNotReadyPollsAgain ==
    PollLoopRule({ STATUS_HLFB_CAPTURING, CMD_RECORD_HLFB })

C9_Witness ==
    /\ op = "capture_and_read_hlfb" /\ Len(trace) >= 4
    /\ trace[2].t = "r" /\ trace[2].data[1] = CMD_RECORD_HLFB
    /\ trace[3].t = "r" /\ trace[3].data[1] = STATUS_HLFB_RECORDED
    /\ IsChunkReq(trace[4])

(***************************************************************************)
(* C10: when the peripheral answers k status reads with HLFB_CAPTURING and *)
(* then HLFB_RECORDED with total_bytes = 4n, capture_and_read_hlfb makes   *)
(* exactly k non-terminal poll iterations (k+1 status reads), its next     *)
(* transfer is the first chunk request, and, every chunk exchange          *)
(* succeeding, it returns the n samples decoded from the n chunk answers,  *)
(* in order.                                                               *)
(***************************************************************************)
C10_PollsThenSamples ==
    (op = "capture_and_read_hlfb" /\ Len(trace) >= 2)
        => LET k == LeadingCapturing
           IN (/\ Len(trace) >= k + 2
               /\ trace[k + 2].t = "r" /\ trace[k + 2].ok
               /\ trace[k + 2].data[1] = STATUS_HLFB_RECORDED
               /\ HlfbTotalBytesOf(trace[k + 2].data) % 4 = 0
               /\ HlfbTotalBytesOf(trace[k + 2].data) > 0)
              => LET n == HlfbTotalBytesOf(trace[k + 2].data) \div 4
                 IN /\ polls = k
                    /\ Len(SelectSeq(SubSeq(trace, 1, k + 2), IsRead)) = k + 1
                    /\ Len(trace) > k + 2 =>
                          IsChunkReq(trace[k + 3]) /\ ReqOffset(trace[k + 3]) = 0
                    /\ Len(results) <= n
                    /\ (pc = "done" /\ AllChunksServed(k + 3)) =>
                          /\ result.kind = "list"
                          /\ Len(result.val) = n
                          /\ \A i \in 1..n :
                                result.val[i] = FloatOf(trace[k + 2 + 2 * i].data)

C10_Witness ==
    /\ op = "capture_and_read_hlfb" /\ pc = "done" /\ ~dev_mode
    /\ args.num_samples = 3
    /\ polls = 1 /\ IsCapturingRead(trace[2])
    /\ total_bytes = 12
    /\ result.kind = "list" /\ Len(result.val) = 3

(***************************************************************************)
(* C11: capture_and_read_hlfb has no iteration cap.  While every status    *)
(* read has been answered with a non-terminal status (HLFB_CAPTURING or 3) *)
(* the call is still in the poll loop, has not returned and has issued no  *)
(* chunk request, however many polls it has made; it is in the poll loop   *)
(* only if no terminal status has been reported yet, so it leaves the loop *)
(* at the first terminal status.  Once the chunk phase is entered at most  *)
(* ceil(total_bytes / 4) chunk requests are issued and, the chunk steps    *)
(* being fair, the call returns.                                           *)
(***************************************************************************)
C11_PollsUntilTerminalThenBoundedChunks ==
    /\ [](op = "capture_and_read_hlfb" =>
            /\ (Len(trace) >= 1 /\ trace[1].ok /\ OnlyNonTerminalReads)
                  => /\ pc = "hlfb_poll"
                     /\ ChunkReqs = << >>
                     /\ polls = Len(trace) - 1
            /\ pc = "hlfb_poll" => OnlyNonTerminalReads
            /\ Len(ChunkReqs) <= (total_bytes + 3) \div 4)
    /\ InHlfbChunkPhase ~> pc = "done"

C11_Witness ==
    /\ op = "capture_and_read_hlfb" /\ pc = "hlfb_poll"
    /\ polls = MaxPolls /\ polls >= 2
    /\ trace[2].data[1] = STATUS_HLFB_CAPTURING
    /\ trace[3].data[1] = CMD_RECORD_HLFB

(***************************************************************************)
(* C12: throughout every chunked transfer, whatever total_bytes the ready  *)
(* status advertises, the current offset (the bytes accepted so far, which *)
(* is the offset of the next request) is a multiple of 4 and never exceeds *)
(* total_bytes, request i carries offset 4(i-1), and the transfer ends     *)
(* exactly when the offset equals total_bytes or a chunk exchange fails.   *)
(***************************************************************************)
C12_OffsetWithinTotal ==
    TransferStarted =>
        /\ Accepted % 4 = 0
        /\ Accepted <= total_bytes
        /\ op = "read_encoder_data" => offset = Accepted
        /\ \A i \in 1..Len(ChunkReqs) : ReqOffset(ChunkReqs[i]) = 4 * (i - 1)
        /\ Len(ChunkReqs) \in { Accepted \div 4, Accepted \div 4 + 1 }
        /\ pc = "done" => (Accepted = total_bytes \/ ChunkExchangeFailed)
        /\ pc # "done" => Accepted < total_bytes

(***************************************************************************)
(* C13: every frame exchanged with a peripheral is exactly 6 bytes: every  *)
(* host write is sent at register 0 as 6 bytes, the opcode in byte 0 and   *)
(* the bytes after the opcode's payload zero, and every read requests      *)
(* exactly 6 bytes.                                                        *)
(***************************************************************************)
C13_EveryFrameIsSixBytes ==
    \A i \in 1..Len(trace) :
        LET e == trace[i]
        IN IF e.t = "w"
           THEN /\ e.reg = 0
                /\ e.len = I2C_BUFFER_SIZE
                /\ e.data[1] \in HostOpcodes
                /\ \A k \in (2 + PayloadUsed(e.data[1]))..I2C_BUFFER_SIZE : e.data[k] = 0
           ELSE e.len = I2C_BUFFER_SIZE

(***************************************************************************)
(* C18: a transport failure is never retried: in every function, a bus     *)
(* write or read that raises is the last transfer of the call, and the     *)
(* call has ended.                                                         *)
(***************************************************************************)
C18_TransportFailureEndsCall ==
    \A i \in 1..Len(trace) :
        ~trace[i].ok => /\ i = Len(trace)
                        /\ pc = "done"
                        /\ outcome = "transport_error"

C18_Witness ==
    /\ pc = "done" /\ op = "capture_and_read_hlfb"
    /\ Len(trace) >= 5
    /\ IsChunkReq(trace[Len(trace) - 1])
    /\ ~trace[Len(trace)].ok

(***************************************************************************)
(* C19: start_motor with valid parameters, stop_motor and                  *)
(* emergency_stop_motor each perform exactly one frame write followed by   *)
(* exactly one status read of 6 bytes and never loop (a write that raises  *)
(* ends the call before the read); stop_motor writes [2,0,0,0,0,0] and     *)
(* emergency_stop_motor writes [5,0,0,0,0,0].                              *)
(***************************************************************************)
C19_OneWriteThenOneRead ==
    op \in { "start_motor", "stop_motor", "emergency_stop_motor" } =>
        /\ Len(trace) <= 2
        /\ Len(trace) >= 1 =>
              /\ trace[1].t = "w" /\ trace[1].addr = I2C_PICO_ADDR
              /\ trace[1].reg = 0 /\ trace[1].len = 6
              /\ op = "start_motor" => trace[1].data[1] = 1
              /\ op = "stop_motor" => trace[1].data = << 2, 0, 0, 0, 0, 0 >>
              /\ op = "emergency_stop_motor" => trace[1].data = << 5, 0, 0, 0, 0, 0 >>
        /\ Len(trace) = 2 =>
              /\ trace[1].ok
              /\ trace[2].t = "r" /\ trace[2].addr = I2C_PICO_ADDR /\ trace[2].len = 6
        /\ (pc = "done" /\ (op = "start_motor" => StartArgsValid)) =>
              /\ Len(trace) >= 1
              /\ trace[1].ok => Len(trace) = 2

C19_Witness ==
    /\ pc = "done" /\ op = "emergency_stop_motor"
    /\ Len(trace) = 2 /\ trace[2].ok
    /\ trace[2].data[1] = STATUS_MOTOR_STOPPED

(***************************************************************************)
(* C20: start_motor returns the motor status decoded from the status frame *)
(* it reads back: for the same valid parameters, a call answered           *)
(* MOTOR_RUNNING and a call answered ERROR or MOTOR_STOPPED return         *)
(* different values.                                                       *)
(***************************************************************************)
C20_ReturnTellsStatus ==
    \A e \in seen :
        (/\ StartCompleted /\ args = e.args
         /\ e.status = STATUS_MOTOR_RUNNING
         /\ status_buf[1] \in { STATUS_ERROR, STATUS_MOTOR_STOPPED })
            => result # e.result

(***************************************************************************)
(* C20, amended: whenever the write and the status read both succeed,      *)
(* start_motor returns the operating speed it was given, whatever status   *)
(* the peripheral answers; two completed calls with the same parameters    *)
(* return the same value even when one was answered MOTOR_RUNNING and the  *)
(* other ERROR or MOTOR_STOPPED.                                           *)
(***************************************************************************)
C20_ReturnsOperatingSpeed ==
    StartCompleted =>
        /\ result = RetVal(args.operating_speed)
        /\ \A e \in seen : args = e.args => result = e.result

C20_Witness ==
    /\ StartCompleted
    /\ status_buf[1] = STATUS_ERROR
    /\ result = RetVal(1)
    /\ \E e \in seen : e.args = args /\ e.status = STATUS_MOTOR_RUNNING

(***************************************************************************)
(* C14: no failed operation is fatal: whatever way a protocol operation    *)
(* ends (range rejection, transport error, ERROR or unexpected status,     *)
(* zero-byte or aborted capture), main()'s command loop is still running   *)
(* afterwards and takes the next command; it only ends on "exit".          *)
(***************************************************************************)
C14_CommandLoopSurvivesFailure == main_state # "crashed"

(***************************************************************************)
(* C15: emergency_stop_motor can be issued in every state of an in-flight  *)
(* capture (before the record write, during the poll loop, between a chunk *)
(* request and its read, between chunks): the E-stop handler is enabled    *)
(* there, its write is never held back once the handler runs, and the      *)
(* first bus transfer of the call is the write of [5,0,0,0,0,0] at         *)
(* register 0 of the motor peripheral.                                     *)
(***************************************************************************)
C15_EmergencyStopNeverWaits ==
    /\ (CaptureInFlight /\ other.pc = "idle" /\ other.calls < MaxOtherCalls)
          => ENABLED emergency_stop_handler
    /\ other.pc = "estop_write" => ENABLED emergency_stop_handler_write
    /\ (other.op = "emergency_stop_motor" /\ other.first # << >>)
          => other.first[1] = [t |-> "w", addr |-> I2C_PICO_ADDR, reg |-> 0,
                               data |-> << 5, 0, 0, 0, 0, 0 >>]

C15_Witness ==
    /\ CaptureInFlight /\ pc = "hlfb_chunk_read"
    /\ Len(trace) >= 2
    /\ trace[Len(trace) - 1].by = "main" /\ IsChunkReq(trace[Len(trace) - 1])
    /\ trace[Len(trace)].by = "other"
    /\ trace[Len(trace)].data = << 5, 0, 0, 0, 0, 0 >>

(***************************************************************************)
(* C16: operations never overlap on the bus: between two transfers of the  *)
(* operation the command loop is executing, no transfer of another         *)
(* operation reaches the bus, the E-stop handler's emergency stop          *)
(* included.                                                               *)
(***************************************************************************)
C16_OperationsNeverOverlap ==
    \A i, j, k \in 1..Len(trace) :
        (i < j /\ j < k /\ trace[i].by = "main" /\ trace[k].by = "main")
            => trace[j].by = "main"

(***************************************************************************)
(* C17: when two capture_and_read_hlfb calls share the emulated bus with   *)
(* no mutual exclusion, the answer to a chunk read of one call is the      *)
(* answer to the latest write on the bus, whichever call made it: the call *)
(* records as its sample for offset 4(i-1) the value of the offset last    *)
(* requested by either call, and it aborts when the latest write was the   *)
(* other call's record command.  (The witness is a call whose sample for   *)
(* offset 0 is the value served for the other call's offset 4.)            *)
(***************************************************************************)
C17_SampleAnswersLatestRequest ==
    /\ Len(results) <= Len(MainChunkReads)
    /\ \A i \in 1..Len(MainChunkReads) :
          LET rd == MainChunkReads[i]
              w == trace[LatestWriteBefore(rd)]
          IN IF IsChunkReq(w)
             THEN /\ trace[rd].data[1] = STATUS_HLFB_DATA_CHUNK
                  /\ Len(results) >= i
                  /\ results[i] = Normalise(0, ReqOffset(w), -2)
             ELSE /\ w.by = "other"
                  /\ trace[rd].data[1] # STATUS_HLFB_DATA_CHUNK
                  /\ i = Len(MainChunkReads) /\ Len(results) = i - 1
                  /\ pc = "done" /\ outcome = "chunk_abort"

C17_Witness ==
    /\ op = "capture_and_read_hlfb" /\ pc = "done" /\ outcome = "ok"
    /\ Len(results) >= 1
    /\ results[1] = Normalise(0, 4, -2)
    /\ \E j \in 1..Len(trace) :
          /\ trace[j].by = "other" /\ IsChunkReq(trace[j]) /\ ReqOffset(trace[j]) = 4
          /\ j + 1 = MainChunkReads[1]

(***************************************************************************)
(* C21: read_single_sample performs exactly one SINGLE_SHOT write and one  *)
(* status read (no read when the write raises), and returns the unsigned   *)
(* 32-bit little-endian value of payload bytes 1-4 if and only if the      *)
(* status byte read is SINGLE_SHOT_READY (0x35); for every other status,   *)
(* and when a transfer raises, it returns None with no further exchange.   *)
(* The value v is compared by its halves << v div 65536, v mod 65536 >>.   *)
(***************************************************************************)
C21_SingleShotValueIffReady ==
    op = "read_single_sample" =>
        /\ Len(trace) <= 2
        /\ Len(trace) >= 1 =>
              /\ trace[1].t = "w" /\ trace[1].addr = PICO2_ADDR /\ trace[1].reg = 0
              /\ trace[1].data = << 35, 0, 0, 0, 0, 0 >>
        /\ Len(trace) = 2 =>
              /\ trace[1].ok
              /\ trace[2].t = "r" /\ trace[2].addr = PICO2_ADDR
        /\ pc = "done" =>
              /\ Len(trace) >= 1
              /\ trace[1].ok => Len(trace) = 2
              /\ result.kind = "value" <=>
                    (Len(trace) = 2 /\ trace[2].ok /\ trace[2].data[1] = 53)
              /\ result.kind # "value" => result = RetNone
              /\ result.kind = "value" =>
                    LET d == trace[2].data
                    IN /\ result.val[1] = << d[5] * 256 + d[4], d[3] * 256 + d[2] >>
                       /\ result.val[1][1] \in 0..65535
                       /\ result.val[1][2] \in 0..65535

C21_Witness ==
    /\ op = "read_single_sample" /\ pc = "done"
    /\ Len(trace) = 2 /\ trace[2].ok
    /\ trace[2].data = << 53, 255, 255, 255, 255 >>
    /\ result = RetVal(<< 65535, 65535 >>)

(***************************************************************************)
(* C22: read_encoder_data writes nothing to the bus unless the first       *)
(* status it reads is READY: its first transfer is a status read, and for  *)
(* CAPTURING, for every other status than READY, and when that read        *)
(* raises, it returns an empty list after exactly one read and no chunk    *)
(* request.                                                                *)
(***************************************************************************)
C22_NoWriteUnlessReady ==
    op = "read_encoder_data" =>
        /\ Len(trace) >= 1 =>
              /\ trace[1].t = "r" /\ trace[1].addr = PICO2_ADDR /\ trace[1].len = 6
        /\ \A i \in 1..Len(trace) :
              trace[i].t = "w" => (trace[1].ok /\ trace[1].data[1] = 51)
        /\ (Len(trace) >= 1 /\ (trace[1].ok => trace[1].data[1] # 51)) =>
              /\ Len(trace) = 1
              /\ ChunkReqs = << >>
              /\ pc = "done"
              /\ result = RetList(<< >>)

C22_Witness ==
    /\ op = "read_encoder_data" /\ pc = "done"
    /\ Len(trace) = 1 /\ trace[1].ok
    /\ trace[1].data[1] = STATUS_ENCODER_IDLE
    /\ result = RetList(<< >>)

(***************************************************************************)
(* C23: arm_encoder is fire-and-forget: for every samples value it         *)
(* performs exactly one RECORD write whose payload byte 1 is samples and   *)
(* no read, and it returns True if the write succeeded and False           *)
(* otherwise.                                                              *)
(***************************************************************************)
C23_ArmWritesOnceAndReturnsFlag ==
    (op = "arm_encoder" /\ pc = "done") =>
        /\ Len(trace) = 1
        /\ trace[1].t = "w" /\ trace[1].addr = PICO2_ADDR /\ trace[1].reg = 0
        /\ trace[1].data = << 33, args.num_samples, 0, 0, 0, 0 >>
        /\ result = RetVal(trace[1].ok)

(***************************************************************************)
(* C24: an out-of-range sample count is rejected before any frame is sent: *)
(* capture_and_read_hlfb with num_samples outside 1..255 performs no write *)
(* and no read on the bus, and returns nothing.                            *)
(***************************************************************************)
C24_RejectedCaptureSendsNothing ==
    (op = "capture_and_read_hlfb"
     /\ (args.num_samples < 1 \/ args.num_samples > 255))
        => /\ trace = << >>
           /\ pc = "done"
           /\ outcome = "range_error"
           /\ result = RetNone

C24_Witness ==
    /\ op = "capture_and_read_hlfb" /\ pc = "done"
    /\ args.num_samples = 256
    /\ trace = << >>
    /\ last_write[I2C_PICO_ADDR].set

(***************************************************************************)
(* C25: DummyBus is deterministic and its reads are side-effect free: two  *)
(* reads of the same length at the same address return the same frame      *)
(* whenever the last write to that address before each of them is the same *)
(* and the last RECORD write before each of them is the same, whatever     *)
(* else was written or read in between; in particular consecutive reads at *)
(* an address return the same frame.                                       *)
(***************************************************************************)
C25_ReadIsFunctionOfLastWrite ==
    \A i, j \in 1..Len(trace) :
        (/\ trace[i].t = "r" /\ trace[j].t = "r"
         /\ trace[i].addr = trace[j].addr /\ trace[i].len = trace[j].len
         /\ Written(LastWriteTo(trace[i].addr, i)) = Written(LastWriteTo(trace[j].addr, j))
         /\ Written(LastRecordBefore(i)) = Written(LastRecordBefore(j)))
            => trace[i].data = trace[j].data

C25_Witness ==
    /\ Len(trace) = 4
    /\ IsRecordWrite(trace[1]) /\ trace[1].data[2] = 2
    /\ trace[2].t = "r" /\ trace[2].addr = PICO2_ADDR /\ trace[2].len = 6
    /\ trace[3] = trace[2]
    /\ trace[4] = trace[2]
    /\ trace[4].data[1] = STATUS_READY

(***************************************************************************)
(* C26: DummyBus keeps state per peripheral address: every read returns    *)
(* the frame that the writes to its own address alone would produce, so a  *)
(* write to the motor address changes neither a later read at the encoder  *)
(* address nor the sample memory, and a write to the encoder address       *)
(* changes no read at the motor address.                                   *)
(***************************************************************************)
C26_StatePerAddress ==
    /\ memory = MemoryAlone(Len(trace) + 1)
    /\ \A i \in 1..Len(trace) :
        trace[i].t = "r" =>
            trace[i].data = DummyRead(LastWriteAlone(trace[i].addr, i), MemoryAlone(i),
                                      trace[i].addr, trace[i].len)

\* armed for 2 samples, then an emergency stop and its status read at the
\* motor address, then the status read of read_encoder_data
C26_Witness ==
    /\ Len(trace) = 4
    /\ IsRecordWrite(trace[1]) /\ trace[1].data[2] = 2
    /\ trace[2].t = "w" /\ trace[2].addr = I2C_PICO_ADDR /\ trace[2].data = EmergencyStopFrame
    /\ trace[3].t = "r" /\ trace[3].addr = I2C_PICO_ADDR
    /\ trace[4].t = "r" /\ trace[4].addr = PICO2_ADDR
    /\ trace[4].data = << STATUS_READY, 8, 0, 0, 0, 0 >>
    /\ Len(memory) = 8

(***************************************************************************)
(* C27: after a RECORD write [0x21, n, ...] with n in 1..255 to the        *)
(* encoder address of DummyBus, a status read at that address with no      *)
(* write to that address in between returns READY (0x33) with bytes 1-2    *)
(* the little-endian byte count of the prepared sample memory, which is    *)
(* 4*n.                                                                    *)
(***************************************************************************)
C27_ReadyWithByteCountAfterRecord ==
    \A i \in 1..Len(trace) :
        LET w == LastWriteTo(PICO2_ADDR, i)
        IN (/\ trace[i].t = "r" /\ trace[i].addr = PICO2_ADDR
            /\ trace[i].len = I2C_BUFFER_SIZE
            /\ w # 0 /\ IsRecordWrite(trace[w])
            /\ trace[w].data[2] \in 1..255)
              => LET n == trace[w].data[2]
                 IN /\ trace[i].data = << STATUS_READY, (4 * n) % 256, (4 * n) \div 256, 0, 0, 0 >>
                    /\ Len(MemoryAlone(i)) = 4 * n
                    /\ (i = Len(trace) => Len(memory) = 4 * n)

\* two status reads after RECORD for 65 samples, a motor transfer in between
C27_Witness ==
    /\ Len(trace) = 4
    /\ IsRecordWrite(trace[1]) /\ trace[1].data[2] = 65
    /\ trace[2].t = "r" /\ trace[2].addr = PICO2_ADDR /\ trace[2].len = I2C_BUFFER_SIZE
    /\ trace[3].t = "w" /\ trace[3].addr = I2C_PICO_ADDR
    /\ trace[4] = trace[2]
    /\ trace[4].data = << STATUS_READY, 4, 1, 0, 0, 0 >>

(***************************************************************************)
(* C28: after a chunk-read request for offset k is written to the encoder  *)
(* address of DummyBus, be it a frame [0x22, lsb, msb, ...] or the request *)
(* exactly as read_encoder_data issues it, a read at that address returns  *)
(* CHUNK (0x34) with bytes 1-4 the bytes k..k+3 of the sample memory,      *)
(* zero-padded when fewer than 4 bytes remain.                             *)
(***************************************************************************)
C28_ChunkRequestAnswered ==
    \A i \in 1..Len(trace) :
        AnswersEncoderChunk(i) => trace[i].data = ChunkOfMemory(i)

\* the same for the frame form alone
C28_ChunkFrameAnswered ==
    \A i \in 1..Len(trace) :
        (AnswersEncoderChunk(i) /\ IsEncoderChunkFrame(trace[LastWriteTo(PICO2_ADDR, i)]))
            => trace[i].data = ChunkOfMemory(i)

(***************************************************************************)
(* C29: frame round trip for chunk-read requests: for every offset         *)
(* 0..65532 the request the host builds is a 6-byte frame with the opcode  *)
(* in byte 0 and the offset, low byte first, in bytes 1-2 and zeros after, *)
(* and the offset the emulator decodes from it is the offset the host      *)
(* intended; for the motor peripheral and for the encoder peripheral.      *)
(***************************************************************************)
C29_ChunkOffsetRoundTrip ==
    pc = "decoded" =>
        /\ Len(buf) = I2C_BUFFER_SIZE
        /\ buf[1] = (IF op = "capture_and_read_hlfb" THEN CMD_READ_HLFB_CHUNK
                     ELSE CMD_READ_CHUNK)
        /\ SubSeq(buf, 2, 6) = << offset % 256, offset \div 256, 0, 0, 0 >>
        /\ result = RetVal(offset)

\* the same for the requests of capture_and_read_hlfb alone
C29_HlfbChunkOffsetRoundTrip ==
    (pc = "decoded" /\ op = "capture_and_read_hlfb") =>
        /\ Len(buf) = I2C_BUFFER_SIZE
        /\ buf[1] = CMD_READ_HLFB_CHUNK
        /\ SubSeq(buf, 2, 6) = << offset % 256, offset \div 256, 0, 0, 0 >>
        /\ result = RetVal(offset)

(***************************************************************************)
(* C30: in the GUI estop_engaged becomes True only in on_engage_estop and  *)
(* becomes False only in on_release_estop; every other handler, and        *)
(* on_reset_all in particular, leaves it as it is.                         *)
(***************************************************************************)
C30_OnlyEngageAndReleaseChangeEstop ==
    [][ /\ (gui'.estop_engaged /\ ~gui.estop_engaged)
            => gui'.handler = "on_engage_estop"
        /\ (~gui'.estop_engaged /\ gui.estop_engaged)
            => gui'.handler = "on_release_estop"
        /\ (gui'.handler \notin { "on_engage_estop", "on_release_estop" })
            => gui'.estop_engaged = gui.estop_engaged ]_vars

\* on_reset_all has run with the E-Stop latched
C30_Witness ==
    /\ main_state = "gui"
    /\ gui.handler = "on_reset_all"
    /\ gui.estop_engaged
    /\ gui.max_speed = << >>
    /\ ~gui.enabled

(***************************************************************************)
(* C31: in the GUI, whenever no handler is running, the motor controls are *)
(* enabled if and only if max_speed is set and the E-Stop is not engaged.  *)
(***************************************************************************)
C31_ControlsEnabledIffConfiguredAndReleased ==
    (main_state = "gui" /\ pc = "idle")
        => (gui.enabled <=> (gui.max_speed # << >> /\ ~gui.estop_engaged))

\* on_engage_estop has ended with a max speed set: the controls are disabled
C31_Witness ==
    /\ main_state = "gui" /\ pc = "idle"
    /\ gui.handler = "on_engage_estop"
    /\ gui.max_speed # << >>
    /\ gui.estop_engaged
    /\ ~gui.enabled

(***************************************************************************)
(* C32: in the GUI, while the E-Stop is engaged no START frame and no      *)
(* encoder RECORD frame is written to the bus, whatever handlers are       *)
(* invoked; and when on_engage_estop ends the E-Stop is engaged, whether   *)
(* or not the EMERGENCY_STOP frame could be sent.                          *)
(***************************************************************************)
C32_NoStartOrArmWhileEngaged ==
    [][ /\ gui'.estop_engaged
            => \A i \in 1..Len(trace') : ~IsStartOrArmWrite(trace'[i])
        /\ (main_state = "gui" /\ op = "emergency_stop_motor" /\ pc = "done"
              /\ pc' = "idle")
            => gui'.estop_engaged ]_vars

\* on_start invoked with a max speed set while the E-Stop is engaged
C32_Witness ==
    /\ main_state = "gui" /\ pc = "idle"
    /\ gui.estop_engaged
    /\ gui.max_speed # << >>
    /\ gui.handler = "on_start"
    /\ trace = << >>

(***************************************************************************)
(* C33: whenever main's command loop has ended, by `exit`, by a keyboard   *)
(* interrupt or by an exception raised while handling a command, a STOP    *)
(* frame was written to the motor peripheral before the bus is closed.     *)
(***************************************************************************)
C33_StopBeforeClose ==
    [][ (main_state # "closed" /\ main_state' = "closed")
            => \E i \in 1..Len(trace) : IsStopWrite(trace[i]) ]_vars

\* the same for the loop ended by `exit` or by a keyboard interrupt
C33_StopBeforeCloseOnExit ==
    [][ (main_state = "exited" /\ main_state' = "closed")
            => \E i \in 1..Len(trace) : IsStopWrite(trace[i]) ]_vars

(***************************************************************************)
(* C34: once main's finally block has closed the bus, no later step of     *)
(* main or of the E-stop callback writes a frame to the bus or reads one   *)
(* from it.                                                                *)
(***************************************************************************)
C34_NoTransferAfterClose ==
    [][ main_state = "closed" => trace' = trace ]_vars

(***************************************************************************)
(* C35: on DummyBus, with the E-stop handler's emergency_stop_motor (write *)
(* then read at the motor address) interleaved at any point of a running   *)
(* capture_and_read_hlfb, the capture never holds or returns a wrong       *)
(* sample: it returns nothing, or a prefix of the sequence an undisturbed  *)
(* capture returns, sample i being the value offset/4 for offset 4*i.      *)
(***************************************************************************)
C35_EstopLeavesPrefix ==
    (dev_mode /\ op = "capture_and_read_hlfb")
        => /\ Len(results) <= args.num_samples
           /\ \A i \in 1..Len(results) : results[i] = Normalise(0, 4 * (i - 1), -2)
           /\ pc = "done" => (result = RetNone \/ result = RetList(results))

\* the emergency stop was written between a chunk request and its read: the
\* capture returned the samples before it, fewer than were asked for
C35_Witness ==
    /\ dev_mode /\ op = "capture_and_read_hlfb" /\ pc = "done"
    /\ result.kind = "list"
    /\ Len(result.val) >= 1 /\ Len(result.val) < args.num_samples
    /\ \E j \in 2..(Len(trace) - 1) :
          /\ trace[j].by = "other" /\ trace[j].t = "w"
          /\ trace[j].data = EmergencyStopFrame
          /\ trace[j - 1].by = "main" /\ IsChunkReq(trace[j - 1])
          /\ trace[j + 1].by = "main" /\ trace[j + 1].t = "r"
          /\ trace[j + 1].data[1] = STATUS_MOTOR_STOPPED

(***************************************************************************)
(* C36: on DummyBus, after arm_encoder(n) and then a read_single_sample,   *)
(* read_encoder_data still observes READY and returns the n armed samples. *)
(***************************************************************************)
C36_SingleShotKeepsArmedCapture ==
    (dev_mode /\ pc = "done" /\ op = "read_encoder_data" /\ ArmedThenSingleShot)
        => LET n == SessionCall(Cardinality(seen) - 1).num_samples
           IN /\ trace[1].data[1] = STATUS_READY
              /\ result = RetList([i \in 1..n |-> 10 * ((i - 1) % 200)])

=============================================================================
